---- MODULE Spec2Model ----
(***************************************************************************)
(* Model of the XFBIN exporter of cc2_xfbin_blender                        *)
(* (src/blender/exporter.py): XfbinExporter.export_collection, make_clump, *)
(* make_coords and make_models, run over a scene of armatures and an       *)
(* optional container file on disk.                                        *)
(*                                                                         *)
(* Lists that the code shares by reference (coord_chunks, model_chunks,    *)
(* model_groups) live in a heap and are named by their address, so that    *)
(* "the same list" and "an equal list" are different things in the model.  *)
(* Weights are whole numbers of weight units; the floats just below 1.0    *)
(* are Grain units apart, so that the sort key 1 - w is rounded to a       *)
(* multiple of Grain. A normalised weight is the fraction n/d.             *)
(***************************************************************************)
EXTENDS Integers, Sequences, FiniteSets, TLC

VARIABLES
    pc,         \* position in export_collection
    opts,       \* the exporter's settings (XfbinExporter.__init__)
    scene,      \* the armatures of the collection, in collection order
    disk,       \* the container file at filepath: NoFile or a container
    xfbin,      \* self.xfbin: the pages of the container in memory
    heap,       \* the lists in memory, by address
    arm,        \* index of the armature the loop is at
    old_clump,  \* make_clump's local old_clump at its last return or raise
    clump,      \* the clump make_clump returned last
    built,      \* the list make_models returned in the last make_clump
    log,        \* diagnostics printed so far
    error,      \* the exception that ended the run, or NoError
    writes,     \* number of calls of write_xfbin_to_path
    imported,   \* what XfbinImporter.read made of the written file, per clump
    buffers     \* the bmeshes make_models made so far, and whether bm.free() was called

vars ==
    <<pc, opts, scene, disk, xfbin, heap, arm, old_clump, clump, built, log, error, writes,
      imported, buffers>>

----------------------------------------------------------------------------
(* Bounds of the model *)

\* NudMesh.MAX_VERTICES and NudMesh.MAX_FACES, scaled down
MAX_VERTICES == 4
MAX_FACES == 2
\* the spacing of the floats just below 1.0, in weight units
Grain == 4
\* the weight 1.0, in grains
WeightUnit == 4
\* the largest weight of an influence, in grains
WeightLevels == 2
\* longest influence list of a vertex
MaxInfluences == 5
\* most bytes of a texture file after its first four
MaxNutTail == 2

----------------------------------------------------------------------------
(* Values *)

NoFile == [pages |-> <<>>, heap |-> <<>>, exists |-> FALSE]
NoError == "none"
NoClump == [type |-> "none"]
\* Python's None as a model reference
None == [origin |-> "None", name |-> "", coord_index |-> 0, material_chunks |-> <<>>,
         rigging_flag |-> 0, meshes |-> <<>>]
ClumpPath == "c.max"

Range(s) == {s[i] : i \in 1..Len(s)}

RECURSIVE Concat(_)
Concat(ss) == IF ss = <<>> THEN <<>> ELSE Concat(SubSeq(ss, 1, Len(ss) - 1)) \o ss[Len(ss)]

RECURSIVE SumSeq(_)
SumSeq(s) == IF s = <<>> THEN 0 ELSE SumSeq(SubSeq(s, 1, Len(s) - 1)) + s[Len(s)]

\* list(dict.fromkeys(s)): the first occurrence of every element, in order
RECURSIVE FromKeys(_)
FromKeys(s) ==
    IF s = <<>> THEN <<>>
    ELSE LET r == FromKeys(SubSeq(s, 1, Len(s) - 1))
         IN  IF s[Len(s)] \in Range(r) THEN r ELSE Append(r, s[Len(s)])

\* armature.name[:-4] if armature.name.endswith(' [C]') else armature.name
StripSuffix(name) ==
    CASE name = "Foo [C]" -> "Foo"
      [] name = "Bar [C]" -> "Bar"
      [] OTHER -> name

----------------------------------------------------------------------------
(* The container (xfbin_lib, used through its interface) *)

SameChunk(page, type, path, name) ==
    page.type = type /\ page.path = path /\ page.name = name

\* Xfbin.get_chunk_page: the index of the page of that chunk, 0 for None
get_chunk_page(pages, type, path, name) ==
    IF \E i \in 1..Len(pages) : SameChunk(pages[i], type, path, name)
    THEN CHOOSE i \in 1..Len(pages) :
            /\ SameChunk(pages[i], type, path, name)
            /\ \A j \in 1..(i - 1) : ~SameChunk(pages[j], type, path, name)
    ELSE 0

\* Xfbin.add_chunk_page / add_clump_page: the chunk's page replaces the page
\* of the same chunk, or is appended
add_page(pages, page) ==
    LET i == get_chunk_page(pages, page.type, page.path, page.name)
    IN  IF i = 0 THEN Append(pages, page) ELSE [pages EXCEPT ![i] = page]

----------------------------------------------------------------------------
(* make_coords *)

Children(bones, name) ==
    SelectSeq(bones, LAMBDA b : b.parent = name)

\* bone.get('scale_signs') of a bone that has no such property
NoSigns == <<>>

\* CoordScale with the absolute value of the decomposed scale
CoordScale_abs(bone) == [i \in 1..3 |-> IF bone.sca[i] < 0 THEN -bone.sca[i] ELSE bone.sca[i]]

\* node.scale: the scale of the decomposed local matrix, times the scale
\* signs of the bone if it has them
CoordScale(bone) ==
    IF bone.scale_signs # NoSigns
    THEN [i \in 1..3 |-> bone.sca[i] * bone.scale_signs[i]]
    ELSE bone.sca

RECURSIVE make_coord(_, _)
make_coord(bones, bone) ==
    LET cs == Children(bones, bone.name)
    IN  <<[name |-> bone.name, parent |-> bone.parent, scale |-> CoordScale(bone)]>>
        \o Concat([i \in 1..Len(cs) |-> make_coord(bones, cs[i])])

\* make_coords with the coords in the order of armature.edit_bones
make_coords_listed(bones) ==
    [i \in 1..Len(bones) |->
        [name |-> bones[i].name, parent |-> bones[i].parent, scale |-> CoordScale(bones[i])]]

make_coords(bones) ==
    LET roots == SelectSeq(bones, LAMBDA b : b.parent = "")
    IN  Concat([i \in 1..Len(roots) |-> make_coord(bones, roots[i])])

----------------------------------------------------------------------------
(* make_models: the weights of one vertex *)

\* coord_indices_dict: name -> index in clump.coord_chunks (the last one wins)
InCoords(coords, name) == \E i \in 1..Len(coords) : coords[i].name = name

CoordIndex(coords, name) ==
    IF InCoords(coords, name)
    THEN (CHOOSE i \in 1..Len(coords) :
            /\ coords[i].name = name
            /\ \A j \in (i + 1)..Len(coords) : coords[j].name # name) - 1
    ELSE 0

\* the weight 1.0, in weight units
One == WeightUnit * Grain

\* the float 1 - w for a weight w of at most 0.5: the difference, rounded to
\* the nearest float below 1.0
FloatOneMinus(w) == One - Grain * ((2 * w + Grain) \div (2 * Grain))

\* sorted(items, key=lambda i: 1 - i[1]): stable, ascending in the key
SortKey(item) == FloatOneMinus(item.w)

\* the place of item i of the list in the sorted list: after the items of a
\* smaller key, and after the earlier items of the same key
SortedPlace(items, i) ==
    1 + Cardinality({j \in 1..Len(items) :
                        \/ SortKey(items[j]) < SortKey(items[i])
                        \/ (SortKey(items[j]) = SortKey(items[i]) /\ j < i)})

SortedItems(items) ==
    [k \in 1..Len(items) |-> items[CHOOSE i \in 1..Len(items) : SortedPlace(items, i) = k]]

Padding == [bone |-> "", w |-> 0]

\* b_weights cut to 4 items or padded to 4 items
CutOrPad(kept) ==
    IF Len(kept) > 4 THEN SubSeq(kept, 1, 4)
    ELSE kept \o [i \in 1..(4 - Len(kept)) |-> Padding]

\* b_weights: the sorted influences on bones of the clump, cut or padded to 4
BWeights(coords, items) ==
    CutOrPad(SelectSeq(SortedItems(items), LAMBDA it : InCoords(coords, it.bone)))

\* Normalized with no branch on weight_sum
Normalized_unguarded(coords, bw, weight_sum) ==
    [bone_ids |-> [i \in 1..4 |-> CoordIndex(coords, bw[i].bone)],
     bone_weights |-> [i \in 1..4 |-> [n |-> bw[i].w, d |-> IF weight_sum > 0 THEN weight_sum ELSE 1]]]

\* the two branches on weight_sum
Normalized(coords, bw, weight_sum) ==
    IF weight_sum > 0
    THEN [bone_ids |-> [i \in 1..4 |-> CoordIndex(coords, bw[i].bone)],
          bone_weights |-> [i \in 1..4 |-> [n |-> bw[i].w, d |-> weight_sum]]]
    ELSE [bone_ids |-> <<0, 0, 0, 0>>,
          bone_weights |-> <<[n |-> 0, d |-> 1], [n |-> 0, d |-> 1],
                             [n |-> 0, d |-> 1], [n |-> 1, d |-> 1]>>]

WeightSum(bw) == bw[1].w + bw[2].w + bw[3].w + bw[4].w

NormalizedWeights(coords, bw) == Normalized(coords, bw, WeightSum(bw))

\* vert.bone_ids and vert.bone_weights
VertexWeights(coords, deform, items) ==
    IF ~deform THEN [bone_ids |-> <<>>, bone_weights |-> <<>>]
    ELSE NormalizedWeights(coords, BWeights(coords, items))

----------------------------------------------------------------------------
(* make_models: one mesh object *)

\* the corners of the loop triangles, in traversal order
Corners(tris) == [k \in 1..(3 * Len(tris)) |-> tris[((k - 1) \div 3) + 1][((k - 1) % 3) + 1]]

\* FirstSeen with the vertices in the order of their source index
FirstSeen_sorted(tris) ==
    LET used == Range(Corners(tris))
    IN  [k \in 1..Cardinality(used) |->
            CHOOSE v \in used : Cardinality({u \in used : u < v}) = k - 1]

\* vertex_indices_dict: source vertex index -> output index, in order of
\* first encounter (FirstSeen[k] is the source vertex of output index k - 1)
FirstSeen(tris) == FromKeys(Corners(tris))

OutputIndex(seen, v) == (CHOOSE k \in 1..Len(seen) : seen[k] = v) - 1

\* the corner l at which the vertex of a source index is created: the first
\* one on that vertex (its position, normal, color and uv are read from l)
FirstLoop(corners, src) ==
    CHOOSE k \in 1..Len(corners) : corners[k] = src /\ \A j \in 1..(k - 1) : corners[j] # src

\* vert.color of a vertex of a mesh with no color layer
NoColor == <<>>

NudVertex(src, loop, w) ==
    [src |-> src, loop |-> loop, color |-> NoColor,
     bone_ids |-> w.bone_ids, bone_weights |-> w.bone_weights]

NudMesh(mesh_obj, seen, coords) ==
    [name |-> mesh_obj.name,
     vertices |-> [k \in 1..Len(seen) |->
                      NudVertex(seen[k], FirstLoop(Corners(mesh_obj.tris), seen[k]),
                                VertexWeights(coords, mesh_obj.deform, mesh_obj.weights[seen[k]]))],
     faces |-> [t \in 1..Len(mesh_obj.tris) |->
                   [c \in 1..3 |-> OutputIndex(seen, mesh_obj.tris[t][c])]]]

\* nud_mesh.vertices and nud_mesh.faces of a mesh object
make_nud_mesh(mesh_obj, coords) == NudMesh(mesh_obj, FirstSeen(mesh_obj.tris), coords)

\* Verdict without the check of the faces
Verdict_nofacecheck(nverts, nfaces, has_material) ==
    IF nverts < 3 THEN "no valid faces"
    ELSE IF nverts > MAX_VERTICES THEN "too many vertices"
    ELSE IF ~has_material THEN "non-existing material"
    ELSE "exported"

\* Verdict without the check of the material
Verdict_anymaterial(nverts, nfaces, has_material) ==
    IF nverts < 3 THEN "no valid faces"
    ELSE IF nverts > MAX_VERTICES THEN "too many vertices"
    ELSE IF nfaces > MAX_FACES THEN "too many faces"
    ELSE "exported"

\* the checks of make_models on a mesh object, in their order
Verdict(nverts, nfaces, has_material) ==
    IF nverts < 3 THEN "no valid faces"
    ELSE IF nverts > MAX_VERTICES THEN "too many vertices"
    ELSE IF nfaces > MAX_FACES THEN "too many faces"
    ELSE IF ~has_material THEN "non-existing material"
    ELSE "exported"

MeshVerdict(mesh_obj, xfbin_mats) ==
    Verdict(Len(FirstSeen(mesh_obj.tris)), Len(mesh_obj.tris), mesh_obj.xfbin_material \in xfbin_mats)

\* the mesh objects of an empty that reach mesh_group.meshes.append
ExportedMeshes(empty, xfbin_mats) ==
    SelectSeq(empty.meshes, LAMBDA m : MeshVerdict(m, xfbin_mats) = "exported")

\* x | y of two naturals
RECURSIVE BitOr(_, _)
BitOr(x, y) ==
    IF x = 0 THEN y
    ELSE IF y = 0 THEN x
    ELSE (IF x % 2 = 1 \/ y % 2 = 1 THEN 1 ELSE 0) + 2 * BitOr(x \div 2, y \div 2)

\* int(x) of the identifier of an item of the rigging flags
IntOf(x) ==
    CASE x = "1" -> 1 [] x = "2" -> 2 [] x = "4" -> 4 [] x = "16" -> 16 [] x = "32" -> 32

\* reduce(lambda x, y: int(x) | int(y), items, 0)
RECURSIVE ReduceOr(_)
ReduceOr(items) ==
    IF items = {} THEN 0
    ELSE BitOr(ReduceOr(items \ {CHOOSE x \in items : TRUE}), IntOf(CHOOSE x \in items : TRUE))

\* RiggingFlagOf without the extra flags
RiggingFlagOf_main(nud_data) == ReduceOr(nud_data.rigging_flag)

\* chunk.rigging_flag: the flags of rigging_flag and rigging_flag_extra as one
RiggingFlagOf(nud_data) ==
    ReduceOr(nud_data.rigging_flag \cup nud_data.rigging_flag_extra)

\* ModelChunk with the material appended before the checks of the mesh object
ModelChunk_unchecked(empty, ok, coords) ==
    [origin |-> "scene",
     name |-> empty.name,
     coord_index |-> CoordIndex(coords, empty.mesh_bone),
     rigging_flag |-> RiggingFlagOf(empty),
     material_chunks |-> [i \in 1..Len(empty.meshes) |-> empty.meshes[i].xfbin_material],
     meshes |-> [i \in 1..Len(ok) |-> make_nud_mesh(ok[i], coords)]]

ModelChunk(empty, ok, coords) ==
    [origin |-> "scene",
     name |-> empty.name,
     coord_index |-> CoordIndex(coords, empty.mesh_bone),
     rigging_flag |-> RiggingFlagOf(empty),
     material_chunks |-> [i \in 1..Len(ok) |-> ok[i].xfbin_material],
     meshes |-> [i \in 1..Len(ok) |-> make_nud_mesh(ok[i], coords)]]

\* the model chunk built for an empty
make_model(empty, coords, xfbin_mats) ==
    ModelChunk(empty, ExportedMeshes(empty, xfbin_mats), coords)

----------------------------------------------------------------------------
(* make_models *)

\* meshes_to_export.find(name): the index of the entry, 0 when there is none
Find(meshes_to_export, name) ==
    IF \E i \in 1..Len(meshes_to_export) : meshes_to_export[i].name = name
    THEN CHOOSE i \in 1..Len(meshes_to_export) :
            /\ meshes_to_export[i].name = name
            /\ \A j \in 1..(i - 1) : meshes_to_export[j].name # name
    ELSE 0

\* old_clump_all_models: the models of the old clump and of its groups
OldClumpAllModels(old) ==
    FromKeys(old.model_chunks
             \o Concat([g \in 1..Len(old.model_groups) |-> old.model_groups[g].model_chunks]))

\* the old models named like the empty
OldModel(old, name) ==
    IF old.type = "clump"
    THEN SelectSeq(OldClumpAllModels(old), LAMBDA c : c # None /\ c.name = name)
    ELSE <<>>

\* CarriedOver with the denied empty left out
CarriedOver_omitted(old_model) == <<>>

\* what a denied empty appends: its old model, if there is one
CarriedOver(old_model) == IF old_model # <<>> THEN <<old_model[1]>> ELSE <<>>

\* Built with the chunk appended whatever it holds
Built_always(chunk) == <<chunk>>

\* what a built empty appends: its chunk, if it has a mesh
Built(chunk) == IF chunk.meshes = <<>> THEN <<>> ELSE <<chunk>>

\* is the empty built from the scene, i.e. past the export_specific_meshes test
Selected(mesh_index, o) ==
    ~o.export_specific_meshes \/ (mesh_index # 0 /\ o.meshes_to_export[mesh_index].value)

Denied(mesh_index, o) ==
    o.export_specific_meshes /\ mesh_index # 0 /\ ~o.meshes_to_export[mesh_index].value

\* what one turn of the loop over the empties appends to model_chunks
ModelsOfEmpty(empty, coords, old, xfbin_mats, o) ==
    IF Selected(Find(o.meshes_to_export, empty.name), o)
    THEN Built(make_model(empty, coords, xfbin_mats))
    ELSE IF Denied(Find(o.meshes_to_export, empty.name), o)
    THEN CarriedOver(OldModel(old, empty.name))
    ELSE <<>>

make_models(empties, coords, old, xfbin_mats, o) ==
    Concat([e \in 1..Len(empties) |-> ModelsOfEmpty(empties[e], coords, old, xfbin_mats, o)])

\* the diagnostics make_models prints for the mesh objects of an empty
MeshDiag(mesh_obj, verdict) ==
    IF verdict = "exported" THEN <<>>
    ELSE <<[tag |-> "NUD MESH", name |-> mesh_obj.name, what |-> verdict]>>

NudDiag(empty, ok) ==
    IF ok = <<>> THEN <<[tag |-> "NUD", name |-> empty.name, what |-> "no exported meshes"]>>
    ELSE <<>>

EmptyDiags(empty, xfbin_mats, o) ==
    IF Selected(Find(o.meshes_to_export, empty.name), o)
    THEN Concat([i \in 1..Len(empty.meshes) |->
                    MeshDiag(empty.meshes[i], MeshVerdict(empty.meshes[i], xfbin_mats))])
         \o NudDiag(empty, ExportedMeshes(empty, xfbin_mats))
    ELSE <<>>

\* the diagnostics make_models prints, in order
ModelDiags(empties, xfbin_mats, o) ==
    Concat([e \in 1..Len(empties) |-> EmptyDiags(empties[e], xfbin_mats, o)])

\* the bmesh of a mesh object: bm.free() is reached past the checks only
Buffer(mesh_obj, verdict) == [mesh |-> mesh_obj.name, freed |-> verdict = "exported"]

EmptyBuffers(empty, xfbin_mats, o) ==
    IF Selected(Find(o.meshes_to_export, empty.name), o)
    THEN [i \in 1..Len(empty.meshes) |->
             Buffer(empty.meshes[i], MeshVerdict(empty.meshes[i], xfbin_mats))]
    ELSE <<>>

\* the bmeshes make_models makes, in order
ModelBuffers(empties, xfbin_mats, o) ==
    Concat([e \in 1..Len(empties) |-> EmptyBuffers(empties[e], xfbin_mats, o)])

----------------------------------------------------------------------------
(* make_clump *)

\* the lists of the old clump, read through the heap
Deref(old, hp) ==
    IF old.type = "clump"
    THEN [type |-> "clump",
          coord_chunks |-> hp[old.coord_chunks],
          model_chunks |-> hp[old.model_chunks],
          model_groups |-> hp[old.model_groups]]
    ELSE NoClump

\* model_chunks = {m.name: m for m in ...}: the last model of a name wins
InDict(models, name) == \E i \in 1..Len(models) : models[i].name = name

DictGet(models, name) ==
    models[CHOOSE i \in 1..Len(models) :
              /\ models[i].name = name
              /\ \A j \in (i + 1)..Len(models) : models[j].name # name]

\* ClumpModelChunks read from the dict after model_chunks['None'] = None
ClumpModelChunks_late(names, models) ==
    LET kept == SelectSeq(names, LAMBDA c : c = "None" \/ InDict(models, c))
    IN  [i \in 1..Len(kept) |-> IF kept[i] = "None" THEN None ELSE DictGet(models, kept[i])]

\* clump.model_chunks: the models of clump_data.models that were made
ClumpModelChunks(names, models) ==
    LET kept == SelectSeq(names, LAMBDA c : InDict(models, c))
    IN  [i \in 1..Len(kept) |-> DictGet(models, kept[i])]

\* g.model_chunks, read from the dict after model_chunks['None'] = None
GroupModelChunks(names, models) ==
    LET kept == SelectSeq(names, LAMBDA c : c = "None" \/ InDict(models, c))
    IN  [i \in 1..Len(kept) |-> IF kept[i] = "None" THEN None ELSE DictGet(models, kept[i])]

ClumpModelGroups(groups, models) ==
    [g \in 1..Len(groups) |-> [model_chunks |-> GroupModelChunks(groups[g].models, models)]]

\* the old clump of the armature in the container, when injecting
OldClumpAt(pages, i, o) == IF o.inject_to_xfbin /\ i # 0 THEN pages[i].clump ELSE NoClump

FindOldClump(armature, pages, o) ==
    OldClumpAt(pages, get_chunk_page(pages, "clump", armature.path, StripSuffix(armature.name)), o)

\* ClumpCoords with the old list copied instead of shared
ClumpCoords_copied(armature, old, hp, o) ==
    IF o.export_bones
    THEN [raised |-> NoError, ref |-> Len(hp) + 1, heap |-> Append(hp, make_coords(armature.bones))]
    ELSE IF old.type = "clump"
    THEN [raised |-> NoError, ref |-> Len(hp) + 1, heap |-> Append(hp, hp[old.coord_chunks])]
    ELSE [raised |-> "Cannot export bones.", ref |-> 0, heap |-> hp]

\* ClumpCoords with the bones rebuilt when there is no old clump
ClumpCoords_rebuilt(armature, old, hp, o) ==
    IF o.export_bones \/ old.type # "clump"
    THEN [raised |-> NoError, ref |-> Len(hp) + 1, heap |-> Append(hp, make_coords(armature.bones))]
    ELSE [raised |-> NoError, ref |-> old.coord_chunks, heap |-> hp]

\* lines 262-267: the address of clump.coord_chunks and the heap
ClumpCoords(armature, old, hp, o) ==
    IF o.export_bones
    THEN [raised |-> NoError, ref |-> Len(hp) + 1, heap |-> Append(hp, make_coords(armature.bones))]
    ELSE IF old.type = "clump"
    THEN [raised |-> NoError, ref |-> old.coord_chunks, heap |-> hp]
    ELSE [raised |-> "Cannot export bones.", ref |-> 0, heap |-> hp]

\* lines 279-296: the lists made from the models make_models returned
RebuiltModels(armature, models, hp, diags, bms) ==
    [raised |-> NoError,
     chunks_ref |-> Len(hp) + 1,
     groups_ref |-> Len(hp) + 2,
     heap |-> hp \o <<ClumpModelChunks(armature.models, models),
                      ClumpModelGroups(armature.model_groups, models)>>,
     built |-> models,
     log |-> diags,
     buffers |-> bms]

\* lines 269-301: the addresses of clump.model_chunks and clump.model_groups,
\* the heap and the list make_models returned
ClumpModels(armature, old, coords, hp, o) ==
    IF o.export_meshes
    THEN RebuiltModels(armature,
                       make_models(armature.empties, coords, Deref(old, hp), armature.materials, o),
                       hp,
                       ModelDiags(armature.empties, armature.materials, o),
                       ModelBuffers(armature.empties, armature.materials, o))
    ELSE IF old.type = "clump"
    THEN [raised |-> NoError, chunks_ref |-> old.model_chunks, groups_ref |-> old.model_groups,
          heap |-> hp, built |-> <<>>, log |-> <<>>, buffers |-> <<>>]
    ELSE [raised |-> "Cannot export meshes.", chunks_ref |-> 0, groups_ref |-> 0,
          heap |-> hp, built |-> <<>>, log |-> <<>>, buffers |-> <<>>]

\* the clump make_clump returns, or the exception it raises
ClumpResult(armature, old, c, m) ==
    [raised |-> m.raised,
     clump |-> IF m.raised # NoError THEN NoClump
               ELSE [type |-> "clump",
                     path |-> armature.path,
                     name |-> StripSuffix(armature.name),
                     coord_chunks |-> c.ref,
                     model_chunks |-> m.chunks_ref,
                     model_groups |-> m.groups_ref],
     old |-> old,
     heap |-> m.heap,
     built |-> m.built,
     log |-> m.log,
     buffers |-> m.buffers]

ClumpAfterCoords(armature, old, c, o) ==
    IF c.raised # NoError
    THEN [raised |-> c.raised, clump |-> NoClump, old |-> old, heap |-> c.heap,
          built |-> <<>>, log |-> <<>>, buffers |-> <<>>]
    ELSE ClumpResult(armature, old, c, ClumpModels(armature, old, c.heap[c.ref], c.heap, o))

ClumpWithOld(armature, old, hp, o) ==
    ClumpAfterCoords(armature, old, ClumpCoords(armature, old, hp, o), o)

make_clump(armature, pages, hp, o) ==
    ClumpWithOld(armature, FindOldClump(armature, pages, o), hp, o)

----------------------------------------------------------------------------
(* export_collection *)

NTP3 == <<"N", "T", "P", "3">>

\* IsNut with the length as the only test
IsNut_anybytes(nut_data) == Len(nut_data) > 4

\* the sanity check of a texture's bytes
IsNut(nut_data) == Len(nut_data) > 4 /\ SubSeq(nut_data, 1, 4) = NTP3

TexturePage(t) ==
    [type |-> "texture", path |-> t.path, name |-> t.texture_name, nut_data |-> t.nut_data]

\* one turn of the loop over the texture chunks
AddTexture(pages, t) ==
    IF t.include /\ t.has_file /\ IsNut(t.nut_data) THEN add_page(pages, TexturePage(t)) ELSE pages

\* the loop over the first n texture chunks of an armature
RECURSIVE AddTextures(_, _, _)
AddTextures(pages, chunks, n) ==
    IF n = 0 THEN pages ELSE AddTexture(AddTextures(pages, chunks, n - 1), chunks[n])

TextureDiag(t) ==
    IF t.include /\ t.has_file /\ ~IsNut(t.nut_data)
    THEN <<[tag |-> "NUT", name |-> t.texture_name, what |-> "not a valid NUT file"]>>
    ELSE <<>>

TextureDiags(chunks) == Concat([i \in 1..Len(chunks) |-> TextureDiag(chunks[i])])

\* Begin with the options left as they were passed
Begin_asPassed ==
    /\ pc = "begin"
    /\ IF opts.inject_to_xfbin /\ ~disk.exists
       THEN /\ pc' = "raised"
            /\ error' = "Cannot inject XFBIN - File does not exist"
            /\ UNCHANGED <<xfbin, heap>>
       ELSE /\ xfbin' = IF opts.inject_to_xfbin THEN disk.pages ELSE <<>>
            /\ heap' = IF opts.inject_to_xfbin THEN disk.heap ELSE <<>>
            /\ pc' = IF scene = <<>> THEN "write" ELSE "textures"
            /\ UNCHANGED error
    /\ UNCHANGED <<opts, scene, disk, arm, old_clump, clump, built, log, writes, imported, buffers>>

\* lines 198-205: the container to start from
Begin ==
    /\ pc = "begin"
    /\ IF opts.inject_to_xfbin
       THEN IF ~disk.exists
            THEN /\ pc' = "raised"
                 /\ error' = "Cannot inject XFBIN - File does not exist"
                 /\ UNCHANGED <<xfbin, heap, opts>>
            ELSE /\ xfbin' = disk.pages
                 /\ heap' = disk.heap
                 /\ pc' = IF scene = <<>> THEN "write" ELSE "textures"
                 /\ UNCHANGED <<error, opts>>
       ELSE /\ opts' = [opts EXCEPT !.export_meshes = TRUE, !.export_bones = TRUE,
                                    !.export_textures = TRUE]
            /\ pc' = IF scene = <<>> THEN "write" ELSE "textures"
            /\ UNCHANGED <<xfbin, heap, error>>
    /\ UNCHANGED <<scene, disk, arm, old_clump, clump, built, log, writes, imported, buffers>>

\* lines 209-223: the texture chunks of the armature at hand
TexturePages ==
    /\ pc = "textures"
    /\ xfbin' = AddTextures(xfbin, scene[arm].texture_chunks, Len(scene[arm].texture_chunks))
    /\ log' = log \o TextureDiags(scene[arm].texture_chunks)
    /\ pc' = "clump"
    /\ UNCHANGED <<opts, scene, disk, heap, arm, old_clump, clump, built, error, writes, imported, buffers>>

ClumpPageOf(c) == [type |-> "clump", path |-> c.path, name |-> c.name, clump |-> c]

\* AddClumpPage with the exception caught and the container written
AddClumpPage_caught(r) ==
    /\ old_clump' = r.old
    /\ clump' = r.clump
    /\ built' = r.built
    /\ heap' = r.heap
    /\ log' = log \o r.log
    /\ buffers' = buffers \o r.buffers
    /\ IF r.raised # NoError
       THEN /\ error' = r.raised
            /\ pc' = "write"
            /\ UNCHANGED <<xfbin, arm>>
       ELSE /\ xfbin' = add_page(xfbin, ClumpPageOf(r.clump))
            /\ arm' = arm + 1
            /\ pc' = IF arm = Len(scene) THEN "write" ELSE "textures"
            /\ UNCHANGED error

\* what export_collection does with the outcome r of make_clump
AddClumpPage(r) ==
    /\ old_clump' = r.old
    /\ clump' = r.clump
    /\ built' = r.built
    /\ heap' = r.heap
    /\ log' = log \o r.log
    /\ buffers' = buffers \o r.buffers
    /\ IF r.raised # NoError
       THEN /\ error' = r.raised
            /\ pc' = "raised"
            /\ UNCHANGED <<xfbin, arm>>
       ELSE /\ xfbin' = add_page(xfbin, ClumpPageOf(r.clump))
            /\ arm' = arm + 1
            /\ pc' = IF arm = Len(scene) THEN "write" ELSE "textures"
            /\ UNCHANGED error

\* line 225: make_clump and add_clump_page for the armature at hand
ClumpPage ==
    /\ pc = "clump"
    /\ AddClumpPage(make_clump(scene[arm], xfbin, heap, opts))
    /\ UNCHANGED <<opts, scene, disk, writes, imported>>

\* line 228: write_xfbin_to_path
Write ==
    /\ pc = "write"
    /\ disk' = [pages |-> xfbin, heap |-> heap, exists |-> TRUE]
    /\ writes' = writes + 1
    /\ pc' = "done"
    /\ UNCHANGED <<opts, scene, xfbin, heap, arm, old_clump, clump, built, log, error, imported, buffers>>

----------------------------------------------------------------------------
(* XfbinImporter: make_armature *)

\* clump.root_nodes and node.children of the container library: the nodes
\* with no parent, and the nodes of a parent, in the order of the coords
RootNodes(coords) == SelectSeq(coords, LAMBDA c : c.parent = "")
NodeChildren(coords, name) == SelectSeq(coords, LAMBDA c : c.parent = name)

\* BoneScale with the stored scale as it is
BoneScale_signed(node) == node.scale

\* sca: the absolute value of the scale
BoneScale(node) == [i \in 1..3 |-> IF node.scale[i] < 0 THEN -node.scale[i] ELSE node.scale[i]]

\* bone['scale_signs']
ScaleSigns(node) == [i \in 1..3 |-> IF node.scale[i] < 0 THEN -1 ELSE 1]

\* Translation(pos) @ rot @ Diagonal(sca): a factor of the product of matrices
LocalMatrix(node) == [node |-> node.name, sca |-> BoneScale(node)]

\* this_bone_matrix: the product of the local matrices from the root down
ThisBoneMatrix(parent_matrix, node) == parent_matrix \o <<LocalMatrix(node)>>

EditBone(node, matrix) ==
    [name |-> node.name, parent |-> node.parent, matrix |-> matrix,
     scale_signs |-> ScaleSigns(node)]

\* the bones make_bone creates for a node and below it, in their order
RECURSIVE BoneAndChildren(_, _, _, _)
BoneAndChildren(coords, node, matrix, children) ==
    <<EditBone(node, matrix)>>
    \o Concat([i \in 1..Len(children) |->
                  BoneAndChildren(coords, children[i], ThisBoneMatrix(matrix, children[i]),
                                  NodeChildren(coords, children[i].name))])

make_bone(coords, node, parent_matrix) ==
    BoneAndChildren(coords, node, ThisBoneMatrix(parent_matrix, node),
                    NodeChildren(coords, node.name))

\* the edit bones of the armature of a clump
make_armature(coords) ==
    Concat([i \in 1..Len(RootNodes(coords)) |-> make_bone(coords, RootNodes(coords)[i], <<>>)])

----------------------------------------------------------------------------
(* XfbinImporter: make_objects and nud_mesh_to_bmesh *)

\* bm.faces.new raises for a face on the vertices of a face that exists
FaceExists(bm_faces, tri) == \E f \in 1..Len(bm_faces) : Range(bm_faces[f]) = Range(tri)

\* bm.verts[i] raises for an index that is no vertex
IsVert(nverts, i) == i >= 0 /\ i < nverts

\* AddFace with no test of the distinct indices
AddFace_untested(bm_faces, tri, nverts) ==
    IF (\A c \in 1..3 : IsVert(nverts, tri[c])) /\ ~FaceExists(bm_faces, tri)
    THEN Append(bm_faces, tri)
    ELSE bm_faces

\* one turn of the loop over mesh.faces
AddFace(bm_faces, tri, nverts) ==
    IF Cardinality(Range(tri)) # 3 THEN bm_faces
    ELSE IF (\A c \in 1..3 : IsVert(nverts, tri[c])) /\ ~FaceExists(bm_faces, tri)
    THEN Append(bm_faces, tri)
    ELSE bm_faces

\* the faces of the bmesh after the first n triangles of the mesh
RECURSIVE BmFaces(_, _, _)
BmFaces(faces, n, nverts) ==
    IF n = 0 THEN <<>> ELSE AddFace(BmFaces(faces, n - 1, nverts), faces[n], nverts)

\* len(mesh.vertices) and mesh.vertices[0].color
HasColor(mesh) ==
    Len(mesh.vertices) > 0 /\ mesh.vertices[1].color # NoColor

\* tuple(map(lambda x: x / 255, color))
LoopColor(color) == [ch \in 1..Len(color) |-> [n |-> color[ch], d |-> 255]]

\* the colors of the loops of the faces, under a color layer
LoopColors(mesh, bm_faces) ==
    [f \in 1..Len(bm_faces) |->
        [c \in 1..3 |-> LoopColor(mesh.vertices[bm_faces[f][c] + 1].color)]]

\* map over the color of a vertex that has none raises
ColorRaises(mesh, bm_faces) ==
    /\ HasColor(mesh)
    /\ \E f \in 1..Len(bm_faces) : \E c \in 1..3 :
          mesh.vertices[bm_faces[f][c] + 1].color = NoColor

BmOfFaces(mesh, bm_faces) ==
    [verts |-> Len(mesh.vertices), faces |-> bm_faces,
     color_layer |-> HasColor(mesh),
     colors |-> IF HasColor(mesh) /\ ~ColorRaises(mesh, bm_faces)
                THEN LoopColors(mesh, bm_faces) ELSE <<>>]

nud_mesh_to_bmesh(mesh) ==
    BmOfFaces(mesh, BmFaces(mesh.faces, Len(mesh.faces), Len(mesh.vertices)))

\* nud_mesh_to_bmesh raises on the mesh
MeshRaises(mesh) ==
    ColorRaises(mesh, BmFaces(mesh.faces, Len(mesh.faces), Len(mesh.vertices)))

\* all_model_chunks without the entries that are no model
AllModelChunks(model_chunks, model_groups) ==
    SelectSeq(FromKeys(model_chunks
                       \o Concat([g \in 1..Len(model_groups) |-> model_groups[g].model_chunks])),
              LAMBDA c : c # None)

MeshObjectOf(model, i) ==
    [name |-> model.meshes[i].name, material |-> model.material_chunks[i],
     bm |-> nud_mesh_to_bmesh(model.meshes[i])]

\* x & y of two naturals
RECURSIVE BitAnd(_, _)
BitAnd(x, y) ==
    IF x = 0 \/ y = 0 THEN 0
    ELSE (IF x % 2 = 1 /\ y % 2 = 1 THEN 1 ELSE 0) + 2 * BitAnd(x \div 2, y \div 2)

\* the members of RiggingFlag
UNSKINNED == 1
SKINNED == 2
BODY == 4
BLUR == 16
SHADOW == 32

\* NudPropertyGroup.init_data: the rigging flags of the empty of a model
init_data(model) ==
    [rigging_flag |->
         (IF BitAnd(model.rigging_flag, UNSKINNED) # 0 THEN {"1"} ELSE {})
             \cup (IF BitAnd(model.rigging_flag, SKINNED) # 0 THEN {"2"} ELSE {})
             \cup (IF BitAnd(model.rigging_flag, BODY) # 0 THEN {"4"} ELSE {}),
     rigging_flag_extra |->
         (IF BitAnd(model.rigging_flag, BLUR) # 0 THEN {"16"} ELSE {})
             \cup (IF BitAnd(model.rigging_flag, SHADOW) # 0 THEN {"32"} ELSE {})]

\* the meshes of a model at which the loop over the meshes raises
Failing(model) ==
    {i \in 1..Len(model.meshes) :
        i > Len(model.material_chunks) \/ MeshRaises(model.meshes[i])}

\* the number of meshes the loop makes objects of
MeshesDone(model) ==
    IF Failing(model) = {} THEN Len(model.meshes)
    ELSE (CHOOSE i \in Failing(model) : \A j \in Failing(model) : i <= j) - 1

RaisedAt(model, i) ==
    IF i > Len(model.material_chunks) THEN "IndexError" ELSE "TypeError"

\* the empty of a model and its mesh objects
ObjectsOfModel(model) ==
    [name |-> model.name,
     nud_data |-> init_data(model),
     raised |-> IF Failing(model) = {} THEN NoError
                ELSE RaisedAt(model, MeshesDone(model) + 1),
     meshes |-> [i \in 1..MeshesDone(model) |-> MeshObjectOf(model, i)]]

make_objects(model_chunks, model_groups) ==
    [i \in 1..Len(AllModelChunks(model_chunks, model_groups)) |->
        ObjectsOfModel(AllModelChunks(model_chunks, model_groups)[i])]

----------------------------------------------------------------------------
(* XfbinImporter.read *)

\* what the loop over the pages makes of a page with a clump
ImportClump(c, hp) ==
    [name |-> c.name,
     coords |-> hp[c.coord_chunks],
     bones |-> make_armature(hp[c.coord_chunks]),
     objects |-> make_objects(hp[c.model_chunks], hp[c.model_groups])]

ClumpPagesOf(pages) == SelectSeq(pages, LAMBDA page : page.type = "clump")

ClumpRaised(armature) ==
    \E i \in 1..Len(armature.objects) : armature.objects[i].raised # NoError

FirstRaised(armatures) ==
    IF \E i \in 1..Len(armatures) : ClumpRaised(armatures[i])
    THEN CHOOSE i \in 1..Len(armatures) :
            /\ ClumpRaised(armatures[i])
            /\ \A j \in 1..(i - 1) : ~ClumpRaised(armatures[j])
    ELSE Len(armatures)

\* the armatures up to the first one whose objects raise, that one included
UntilRaised(armatures) == SubSeq(armatures, 1, FirstRaised(armatures))

ImportPages(clump_pages, hp) ==
    UntilRaised([k \in 1..Len(clump_pages) |-> ImportClump(clump_pages[k].clump, hp)])

\* XfbinImporter.read on the file that was written
Import ==
    /\ pc = "done"
    /\ imported' = ImportPages(ClumpPagesOf(disk.pages), disk.heap)
    /\ pc' = "imported"
    /\ UNCHANGED <<opts, scene, disk, xfbin, heap, arm, old_clump, clump, built, log, error, writes,
                   buffers>>

Next == Begin \/ TexturePages \/ ClumpPage \/ Write \/ Import

----------------------------------------------------------------------------
(* The inputs: settings, container files and scenes *)

Settings(inject, meshes, bones, textures, specific, mte) ==
    [inject_to_xfbin |-> inject, export_meshes |-> meshes, export_bones |-> bones,
     export_textures |-> textures, export_specific_meshes |-> specific,
     meshes_to_export |-> mte]

\* meshes_to_export over a list of names: each name absent, True or False
RECURSIVE MeshesToExport(_)
MeshesToExport(names) ==
    IF names = <<>> THEN {<<>>}
    ELSE LET rest == MeshesToExport(Tail(names))
         IN  rest \cup {<<[name |-> Head(names), value |-> v]>> \o r : v \in BOOLEAN, r \in rest}

\* an edit bone: sca is the scale that decompose() gives for its local matrix
Bone(name, parent, sca, scale_signs) ==
    [name |-> name, parent |-> parent, sca |-> sca, scale_signs |-> scale_signs]

UnitScale == <<1, 1, 1>>

SceneBones ==
    <<Bone("root", "", UnitScale, NoSigns), Bone("b1", "root", UnitScale, NoSigns),
      Bone("b2", "b1", UnitScale, NoSigns), Bone("b3", "root", UnitScale, NoSigns),
      Bone("b4", "b2", UnitScale, NoSigns)>>

\* the vertex indices of a mesh object
Vertices == 0..(MAX_VERTICES + 1)
NoWeights == [v \in Vertices |-> <<>>]

MeshObject(name, tris, material) ==
    [name |-> name, tris |-> tris, xfbin_material |-> material, deform |-> FALSE,
     weights |-> NoWeights]

\* an empty with its xfbin_nud_data; the rigging flags are the defaults of
\* NudPropertyGroup
Empty(name, meshes) ==
    [name |-> name, mesh_bone |-> "b1", rigging_flag |-> {"2", "4"},
     rigging_flag_extra |-> {"16", "32"}, meshes |-> meshes]

TextureChunk(name, include, has_file, nut_data) ==
    [path |-> "tex.nut", texture_name |-> name, include |-> include, has_file |-> has_file,
     nut_data |-> nut_data]

Armature(name, models, groups, empties, textures) ==
    [name |-> name, path |-> ClumpPath, bones |-> SceneBones, materials |-> {"m1"},
     models |-> models, model_groups |-> [g \in 1..Len(groups) |-> [models |-> groups[g]]],
     empties |-> empties, texture_chunks |-> textures]

\* a model of a container file
FileModel(name) ==
    [origin |-> "file", name |-> name, coord_index |-> 1, material_chunks |-> <<"m1">>,
     rigging_flag |-> 6,
     meshes |-> <<[name |-> name,
                   vertices |-> [k \in 1..3 |-> [src |-> k - 1, color |-> NoColor, bone_ids |-> <<>>, bone_weights |-> <<>>]],
                   faces |-> <<<<0, 1, 2>>>>]>>]

\* a coord of a container file
Coord(name, parent, scale) == [name |-> name, parent |-> parent, scale |-> scale]

FileCoords == <<Coord("root", "", UnitScale), Coord("b1", "root", UnitScale)>>

\* the page of a clump whose three lists are at addresses at, at + 1, at + 2
FileClumpPage(name, at) ==
    [type |-> "clump", path |-> ClumpPath, name |-> name,
     clump |-> [type |-> "clump", path |-> ClumpPath, name |-> name,
                coord_chunks |-> at, model_chunks |-> at + 1, model_groups |-> at + 2]]

FileTexturePage ==
    [type |-> "texture", path |-> "tex.nut", name |-> "old_tex", nut_data |-> NTP3 \o <<"o">>]

\* a container with no clump
FileEmpty == [pages |-> <<FileTexturePage>>, heap |-> <<>>, exists |-> TRUE]

\* clump Foo with the models [A, B] and the group {A, None, B}
FileFoo ==
    [pages |-> <<FileTexturePage, FileClumpPage("Foo", 1)>>,
     heap |-> <<FileCoords,
                <<FileModel("A"), FileModel("B")>>,
                <<[model_chunks |-> <<FileModel("A"), None, FileModel("B")>>]>> >>,
     exists |-> TRUE]

\* clump Foo with the model [A] and the groups {A, C} and {None, B}; clump Bar
FileFooBar ==
    [pages |-> <<FileClumpPage("Foo", 1), FileClumpPage("Bar", 4)>>,
     heap |-> <<FileCoords,
                <<FileModel("A")>>,
                <<[model_chunks |-> <<FileModel("A"), FileModel("C")>>],
                  [model_chunks |-> <<None, FileModel("B")>>]>>,
                FileCoords,
                <<FileModel("B"), FileModel("A")>>,
                <<[model_chunks |-> <<FileModel("B"), None>>]>> >>,
     exists |-> TRUE]

Files == {NoFile, FileEmpty, FileFoo, FileFooBar}

T012 == <<0, 1, 2>>
T213 == <<2, 1, 3>>
T345 == <<3, 4, 5>>

GoodMesh(name) == MeshObject(name, <<T012, T213>>, "m1")

TextureLists ==
    {<<>>,
     <<TextureChunk("t1", TRUE, TRUE, NTP3 \o <<"x">>)>>,
     <<TextureChunk("t1", TRUE, TRUE, <<"D", "D", "S", " ", "x">>),
       TextureChunk("t2", TRUE, TRUE, NTP3 \o <<"x", "y">>)>>}

\* the armatures of the plain scenes: B has a mesh with faces or without
PlainArmatures(name) ==
    {Armature(name, <<"A", "B">>, << <<"A", "None", "B">> >>,
              <<Empty("A", <<GoodMesh("A1")>>), Empty("B", <<MeshObject("B1", tris, "m1")>>)>>,
              textures) :
        tris \in {<<T012>>, <<>>}, textures \in TextureLists}

PlainScenes ==
    {<<>>}
    \cup {<<a>> : a \in PlainArmatures("Foo [C]")}
    \cup {<<a, b>> : a \in PlainArmatures("Foo [C]"), b \in PlainArmatures("Bar")}

PlainSettings ==
    {Settings(i, m, b, t, FALSE, <<>>) : i \in BOOLEAN, m \in BOOLEAN, b \in BOOLEAN, t \in BOOLEAN}
    \cup {Settings(i, m, b, t, TRUE, mte) :
            i \in BOOLEAN, m \in BOOLEAN, b \in BOOLEAN, t \in BOOLEAN,
            mte \in {<<[name |-> "A", value |-> TRUE], [name |-> "B", value |-> FALSE]>>}}

\* the armatures of the selection scenes: A and B have a mesh with faces or
\* without, C is there or not; the groups name models that are not in
\* clump_data.models, and a model D that no empty has
SelectArmatures ==
    {Armature("Foo [C]", models, groups,
              <<Empty("A", <<MeshObject("A1", trisA, "m1")>>),
                Empty("B", <<MeshObject("B1", trisB, "m1")>>)>> \o c,
              <<>>) :
        models \in {<<"A", "B">>, <<"B", "C", "A">>, <<"A", "None", "B">>},
        groups \in {<< <<"A", "None", "B">> >>, << <<"C", "A">>, <<"B", "D", "None">> >>},
        trisA \in {<<T012>>, <<>>},
        trisB \in {<<T012>>, <<>>},
        c \in {<<>>, <<Empty("C", <<GoodMesh("C1")>>)>>}}

SelectScenes == {<<a>> : a \in SelectArmatures}

SelectSettings ==
    {Settings(i, m, TRUE, TRUE, FALSE, <<>>) : i \in BOOLEAN, m \in BOOLEAN}
    \cup {Settings(i, TRUE, TRUE, TRUE, TRUE, mte) :
            i \in BOOLEAN, mte \in MeshesToExport(<<"A", "B", "C">>)}

\* the state at the call of export_collection
InitWith(settings, files, scenes) ==
    /\ opts \in settings
    /\ disk \in files
    /\ scene \in scenes
    /\ pc = "begin"
    /\ xfbin = <<>>
    /\ heap = <<>>
    /\ arm = 1
    /\ old_clump = NoClump
    /\ clump = NoClump
    /\ built = <<>>
    /\ log = <<>>
    /\ error = NoError
    /\ writes = 0
    /\ imported = <<>>
    /\ buffers = <<>>

Init == InitWith(PlainSettings, Files, PlainScenes)

Spec == Init /\ [][Next]_vars

InitSelect == InitWith(SelectSettings, Files, SelectScenes)

SpecSelect == InitSelect /\ [][Next]_vars

\* n triangles around vertex 0: n + 2 vertices
Fan(n) == [k \in 1..n |-> <<0, k, k + 1>>]

\* n triangles on the same three vertices
Doubled(n) == [k \in 1..n |-> T012]

\* the triangles of the mesh objects of the model scenes: none, one, as many
\* vertices as NudMesh.MAX_VERTICES, one vertex more, one face more than
\* NudMesh.MAX_FACES
\* and two triangles that meet their vertices out of the order of the
\* indices, and a triangle with a vertex twice next to a proper one
Shapes ==
    {<<>>, <<T012>>, Fan(MAX_VERTICES - 2), Fan(MAX_VERTICES - 1), Doubled(MAX_FACES + 1),
     <<T345, <<5, 4, 0>>>>, <<T012, <<0, 0, 1>>>>}

\* the material m2 is not in clump_data.materials
MeshObjects(name) == {MeshObject(name, tris, mat) : tris \in Shapes, mat \in {"m1", "m2"}}

ModelArmatures ==
    {Armature("Foo [C]", <<"A", "B">>, << <<"A", "None", "B">> >>,
              <<Empty("A", <<a1, a2, a3>>), Empty("B", <<b1>>)>>, <<>>) :
        a1 \in MeshObjects("A1"),
        a2 \in MeshObjects("A2"),
        a3 \in {MeshObject("A3", Fan(MAX_VERTICES - 2), "m1"), MeshObject("A3", <<T012>>, "m2")},
        b1 \in MeshObjects("B1")}

ModelScenes == {<<a>> : a \in ModelArmatures}

ModelSettings == {Settings(i, TRUE, TRUE, TRUE, FALSE, <<>>) : i \in BOOLEAN}

InitModels == InitWith(ModelSettings, {NoFile, FileFoo}, ModelScenes)

SpecModels == InitModels /\ [][Next]_vars

\* the vertex groups of the weighted mesh object: five bones of the
\* armature and a group x that is no bone
VertexGroups == <<"b3", "x", "root", "b1", "b4", "b2">>

\* the weights of an influence: 0, one weight unit, and whole grains
WeightValues == {0, 1} \cup {Grain * k : k \in 1..WeightLevels}

\* l.vert[deform_layer].items() for a choice of the weight of every group
\* (-1: the vertex is not in the group)
ItemsOf(f) ==
    LET idx == SelectSeq([i \in 1..Len(VertexGroups) |-> i], LAMBDA i : f[i] # -1)
    IN  [k \in 1..Len(idx) |-> [bone |-> VertexGroups[idx[k]], w |-> f[idx[k]]]]

\* the choices of the weights: the group x has a whole grain or is absent
WeightChoices ==
    {f \in [1..Len(VertexGroups) -> {-1} \cup WeightValues] :
        \A i \in 1..Len(VertexGroups) : VertexGroups[i] = "x" => f[i] \in {-1, Grain}}

Influences == {items \in {ItemsOf(f) : f \in WeightChoices} : Len(items) <= MaxInfluences}

\* a triangle with a deform layer: vertex 0 has the influences, vertex 1 has
\* none, vertex 2 is in the group x only; the mesh object A2 next to it has no
\* deform layer
WeightedMesh(name, items) ==
    [name |-> name, tris |-> <<T012>>, xfbin_material |-> "m1", deform |-> TRUE,
     weights |-> [v \in Vertices |->
                    IF v = 0 THEN items
                    ELSE IF v = 2 THEN <<[bone |-> "x", w |-> Grain]>>
                    ELSE <<>>]]

WeightArmatures ==
    {Armature("Foo [C]", <<"A">>, << <<"A">> >>,
              <<Empty("A", <<WeightedMesh("A1", items), GoodMesh("A2")>>)>>, <<>>) :
        items \in Influences}

WeightScenes == {<<a>> : a \in WeightArmatures}

WeightSettings == {Settings(FALSE, TRUE, TRUE, TRUE, FALSE, <<>>)}

InitWeights == InitWith(WeightSettings, {NoFile}, WeightScenes)

SpecWeights == InitWeights /\ [][Next]_vars

\* the bytes of the texture files: NTP3 and up to MaxNutTail bytes after it,
\* no byte, three bytes of the magic, another magic, the magic after a byte
NutFiles ==
    {NTP3 \o [k \in 1..n |-> "x"] : n \in 0..MaxNutTail}
    \cup {<<>>, <<"N", "T", "P">>, <<"D", "D", "S", " ", "x">>, <<"x">> \o NTP3}

\* one or two texture chunks; the second may have the name of a texture of
\* the container file
TextureSceneLists ==
    {<<TextureChunk("t1", include, has_file, data)>> \o more :
        include \in BOOLEAN, has_file \in BOOLEAN, data \in NutFiles,
        more \in {<<>>} \cup {<<TextureChunk(name, TRUE, TRUE, d)>> :
                                name \in {"t1", "old_tex"}, d \in NutFiles}}

TextureArmatures ==
    {Armature("Foo [C]", <<"A">>, << <<"A">> >>, <<Empty("A", <<GoodMesh("A1")>>)>>, textures) :
        textures \in TextureSceneLists}

TextureScenes == {<<a>> : a \in TextureArmatures}

TextureSettings == {Settings(i, TRUE, TRUE, t, FALSE, <<>>) : i \in BOOLEAN, t \in BOOLEAN}

InitTextures == InitWith(TextureSettings, {NoFile, FileEmpty, FileFoo}, TextureScenes)

SpecTextures == InitTextures /\ [][Next]_vars

\* the scales of the bones and of the coords of the import scenes
BoneScales == {UnitScale, <<2, 1, 1>>, <<-1, 1, 2>>}
BoneSigns == {NoSigns, <<1, 1, 1>>, <<-1, 1, -1>>}

BoneLists ==
    {<<Bone("root", "", s1, g1), Bone("b1", "root", s2, g2)>> :
        s1 \in BoneScales, g1 \in BoneSigns, s2 \in BoneScales, g2 \in BoneSigns}

ImportArmatures ==
    {[Armature("Foo [C]", <<"A">>, << <<"A">> >>, <<Empty("A", <<GoodMesh("A1")>>)>>, <<>>)
        EXCEPT !.bones = bones] : bones \in BoneLists}

ImportScenes == {<<a>> : a \in ImportArmatures}

\* the coords of the files to import: plain, with negative and zero scales,
\* with the cycle a - b next to a root and a node that is its own parent
FileCoordLists ==
    {FileCoords,
     <<Coord("root", "", <<-1, 1, 2>>), Coord("b1", "root", <<2, -2, -1>>),
       Coord("b2", "root", <<0, 1, 1>>), Coord("b3", "b1", UnitScale)>>,
     <<Coord("root", "", UnitScale), Coord("a", "b", UnitScale), Coord("b", "a", <<-1, 1, 1>>),
       Coord("c", "c", UnitScale), Coord("b1", "root", UnitScale)>>}

\* the faces of the meshes of the files to import, on four vertices: a
\* triangle, faces on the points of an earlier face, faces with a point
\* twice, a face with an index that is no vertex
FileFaceLists ==
    {<<T012>>,
     <<T012, <<2, 1, 0>>, <<0, 0, 1>>, <<1, 2, 3>>>>,
     <<<<0, 1, 1>>, <<1, 2, 3>>, <<3, 2, 1>>, <<1, 2, 7>>, <<1, 2, 3>>, T012>>}

FileModelWith(name, faces) ==
    [origin |-> "file", name |-> name, coord_index |-> 1, material_chunks |-> <<"m1">>,
     rigging_flag |-> 6,
     meshes |-> <<[name |-> name,
                   vertices |-> [k \in 1..4 |-> [src |-> k - 1, color |-> NoColor, bone_ids |-> <<>>, bone_weights |-> <<>>]],
                   faces |-> faces]>>]

ImportFiles ==
    {[pages |-> <<FileTexturePage, FileClumpPage("Foo", 1)>>,
      heap |-> <<coords, <<FileModelWith("A", faces)>>,
                 <<[model_chunks |-> <<FileModelWith("A", faces), None>>]>> >>,
      exists |-> TRUE] :
        coords \in FileCoordLists, faces \in FileFaceLists}

ImportSettings ==
    {Settings(i, m, b, TRUE, FALSE, <<>>) : i \in BOOLEAN, m \in BOOLEAN, b \in BOOLEAN}

InitImport == InitWith(ImportSettings, ImportFiles, ImportScenes)

SpecImport == InitImport /\ [][Next]_vars

\* the colors of the vertices of the files to import: none, or 0-255 values
Red == <<255, 0, 0, 255>>
Grey == <<128, 128, 128, 64>>

VertexColors == [1..4 -> {NoColor, Red, Grey}]

ColorFaceLists == {<<>>, <<T012>>, <<T012, <<1, 2, 3>>>>}

FileModelColored(name, faces, colors) ==
    [origin |-> "file", name |-> name, coord_index |-> 1, material_chunks |-> <<"m1">>,
     rigging_flag |-> 6,
     meshes |-> <<[name |-> name,
                   vertices |-> [k \in 1..4 |-> [src |-> k - 1, color |-> colors[k],
                                                 bone_ids |-> <<>>, bone_weights |-> <<>>]],
                   faces |-> faces]>>]

ColorFiles ==
    {[pages |-> <<FileTexturePage, FileClumpPage("Foo", 1)>>,
      heap |-> <<FileCoords, <<FileModelColored("A", faces, colors)>>,
                 <<[model_chunks |-> <<FileModelColored("A", faces, colors), None>>]>> >>,
      exists |-> TRUE] :
        faces \in ColorFaceLists, colors \in VertexColors}

ColorScenes ==
    {<<Armature("Foo [C]", <<"A">>, << <<"A">> >>, <<Empty("A", <<GoodMesh("A1")>>)>>, <<>>)>>}

InitColors == InitWith(ImportSettings, ColorFiles, ColorScenes)

SpecColors == InitColors /\ [][Next]_vars

\* the bones of the scenes of the traversal: every forest on MaxBones bones,
\* in every order of armature.edit_bones
MaxBones == 4

BoneNames == <<"b1", "b2", "b3", "b4", "b5", "b6">>

BoneName(i) == IF i = 0 THEN "" ELSE BoneNames[i]

\* the bone k parents above the bone i, 0 above a root
RECURSIVE Climb(_, _, _)
Climb(par, i, k) == IF k = 0 \/ i = 0 THEN i ELSE Climb(par, par[i], k - 1)

Forests ==
    {par \in [1..MaxBones -> 0..MaxBones] : \A i \in 1..MaxBones : Climb(par, i, MaxBones) = 0}

ForestBones(par) ==
    [i \in 1..MaxBones |-> Bone(BoneName(i), BoneName(par[i]), UnitScale, NoSigns)]

ForestArmatures ==
    {[Armature("Foo [C]", <<"A">>, << <<"A">> >>, <<Empty("A", <<GoodMesh("A1")>>)>>, <<>>)
        EXCEPT !.bones = ForestBones(par)] : par \in Forests}

ForestScenes == {<<a>> : a \in ForestArmatures}

ForestSettings ==
    {Settings(i, TRUE, b, TRUE, FALSE, <<>>) : i \in BOOLEAN, b \in BOOLEAN}

InitBones == InitWith(ForestSettings, {FileFoo}, ForestScenes)

SpecBones == InitBones /\ [][Next]_vars

\* the scenes of the materials: three mesh objects, each of a shape that is
\* exported or skipped, with a material of the clump (m1, m3) or another (m2)
MaterialShapes == {<<T012>>, <<>>, Fan(MAX_VERTICES - 1), Doubled(MAX_FACES + 1)}

MaterialMeshes(name) ==
    {MeshObject(name, tris, mat) : tris \in MaterialShapes, mat \in {"m1", "m2", "m3"}}

MaterialArmatures ==
    {[Armature("Foo [C]", <<"A">>, << <<"A">> >>, <<Empty("A", <<a1, a2, a3>>)>>, <<>>)
        EXCEPT !.materials = {"m1", "m3"}] :
        a1 \in MaterialMeshes("A1"), a2 \in MaterialMeshes("A2"), a3 \in MaterialMeshes("A3")}

MaterialScenes == {<<a>> : a \in MaterialArmatures}

InitMaterials == InitWith(ModelSettings, {NoFile, FileFoo}, MaterialScenes)

SpecMaterials == InitMaterials /\ [][Next]_vars

\* the rigging flags of the models of the files and of the empties of the
\* scenes: every value of FlagBits bits, every set of items
FlagBits == 7

RECURSIVE Pow2(_)
Pow2(n) == IF n = 0 THEN 1 ELSE 2 * Pow2(n - 1)

RiggingFlags == 0..(Pow2(FlagBits) - 1)

FlagFiles ==
    {[pages |-> <<FileTexturePage, FileClumpPage("Foo", 1)>>,
      heap |-> <<FileCoords, <<[FileModel("A") EXCEPT !.rigging_flag = f]>>,
                 <<[model_chunks |-> <<[FileModel("A") EXCEPT !.rigging_flag = f], None>>]>> >>,
      exists |-> TRUE] : f \in RiggingFlags}

FlagArmatures ==
    {Armature("Foo [C]", <<"A">>, << <<"A">> >>,
              <<[Empty("A", <<GoodMesh("A1")>>)
                    EXCEPT !.rigging_flag = main, !.rigging_flag_extra = extra]>>, <<>>) :
        main \in SUBSET {"1", "2", "4"}, extra \in SUBSET {"16", "32"}}

FlagScenes == {<<a>> : a \in FlagArmatures}

FlagSettings == {Settings(TRUE, m, TRUE, TRUE, FALSE, <<>>) : m \in BOOLEAN}

InitFlags == InitWith(FlagSettings, FlagFiles, FlagScenes)

SpecFlags == InitFlags /\ [][Next]_vars

----------------------------------------------------------------------------
(* Properties of export_collection and make_clump *)

InjectError == "Cannot inject XFBIN - File does not exist"
BonesError == "Cannot export bones."
MeshesError == "Cannot export meshes."

\* make_clump has been called, and old_clump and clump are those of its last call
MadeClump == arm > 1 \/ error \in {BonesError, MeshesError}

\* the last call of make_clump returned a clump
Returned == arm > 1 /\ error = NoError

\* the container file is still the one the export started from
Unwritten == writes = 0

HasClumpPage(pages, armature) ==
    get_chunk_page(pages, "clump", armature.path, StripSuffix(armature.name)) # 0

\* C1: when the old container holds the clump of the armature, make_clump
\* with export_bones off gives the new clump the old clump's coord_chunks
\* list itself, and with export_meshes off the old clump's model_chunks and
\* model_groups lists themselves, and the lists hold what they held in the
\* file.
C1_SharedLists ==
    (Returned /\ Unwritten /\ old_clump.type = "clump") =>
        /\ ~opts.export_bones =>
              /\ clump.coord_chunks = old_clump.coord_chunks
              /\ heap[clump.coord_chunks] = disk.heap[old_clump.coord_chunks]
        /\ ~opts.export_meshes =>
              /\ clump.model_chunks = old_clump.model_chunks
              /\ clump.model_groups = old_clump.model_groups
              /\ heap[clump.model_chunks] = disk.heap[old_clump.model_chunks]
              /\ heap[clump.model_groups] = disk.heap[old_clump.model_groups]

\* the case of C1: clump Foo with models [A, B] and group {A, None, B} is
\* re-exported with bones and meshes off
C1_Witness ==
    /\ Returned /\ Unwritten /\ pc = "write"
    /\ ~opts.export_bones /\ ~opts.export_meshes
    /\ clump.name = "Foo"
    /\ old_clump.type = "clump"
    /\ heap[clump.model_chunks] = <<FileModel("A"), FileModel("B")>>
    /\ heap[clump.model_groups] = <<[model_chunks |-> <<FileModel("A"), None, FileModel("B")>>]>>

\* the pages of every armature of the collection are in the container
Assembled ==
    /\ arm = Len(scene) + 1
    /\ \A i \in 1..Len(scene) : HasClumpPage(xfbin, scene[i])

\* C2: write_xfbin_to_path is called at most once, and only when the pages
\* of every armature are assembled; a run that ends in a fatal error never
\* calls it and leaves the file as it was.
C2_NoPartialWrite ==
    /\ [](writes <= 1)
    /\ [](error # NoError => writes = 0)
    /\ [][(disk' # disk \/ writes' # writes) =>
            /\ error = NoError /\ Assembled
            /\ writes = 0 /\ writes' = 1
            /\ disk' = [pages |-> xfbin, heap |-> heap, exists |-> TRUE]]_vars
    /\ [][error # NoError => (disk' = disk /\ writes' = writes)]_vars

\* the case of C2: the second armature fails after the first was assembled
C2_Witness ==
    /\ pc = "raised" /\ error = MeshesError
    /\ arm = 2 /\ HasClumpPage(xfbin, scene[1])
    /\ disk.exists /\ writes = 0

\* C3: make_clump with export_bones off and no old clump raises, and so
\* does make_clump with export_meshes off and no old clump; no clump is
\* returned and no clump page is added for the armature.
C3_MissingPriorData ==
    (MadeClump /\ old_clump.type # "clump" /\ (~opts.export_bones \/ ~opts.export_meshes)) =>
        /\ pc = "raised"
        /\ error = IF ~opts.export_bones THEN BonesError ELSE MeshesError
        /\ clump = NoClump
        /\ ~HasClumpPage(xfbin, scene[arm])
        /\ writes = 0

\* the case of C3: bones are off and the file has no clump of the armature
C3_Witness ==
    /\ pc = "raised" /\ error = BonesError
    /\ disk.exists /\ opts.inject_to_xfbin /\ ~opts.export_bones
    /\ old_clump.type # "clump"

----------------------------------------------------------------------------
(* Properties of make_models and of the lists of the clump *)

\* the armature of the last call of make_clump that returned
LastArmature == scene[arm - 1]

NewChunks == heap[clump.model_chunks]
NewGroups == heap[clump.model_groups]

\* the models of the old clump, in its list or in its groups, as in the file
OldModels ==
    IF old_clump.type # "clump" THEN {}
    ELSE (Range(disk.heap[old_clump.model_chunks])
          \cup UNION {Range(disk.heap[old_clump.model_groups][g].model_chunks) :
                        g \in 1..Len(disk.heap[old_clump.model_groups])})
         \ {None}

\* the entry of meshes_to_export for a name is False
IsDenied(name) ==
    /\ opts.export_specific_meshes
    /\ \E i \in 1..Len(opts.meshes_to_export) :
          /\ opts.meshes_to_export[i].name = name
          /\ ~opts.meshes_to_export[i].value

\* the models of a name in the list make_models returned
BuiltNamed(name) == {i \in 1..Len(built) : built[i].name = name}

\* C4: for an empty whose entry in meshes_to_export is False, make_models
\* appends the old clump's model of that name, the object itself, when the
\* old clump has one, and appends nothing otherwise; it never builds a
\* model for it from the scene.
C4_DeniedCarriedOver ==
    (Returned /\ Unwritten /\ opts.export_meshes) =>
        \A e \in 1..Len(LastArmature.empties) :
            LET name == LastArmature.empties[e].name
            IN  IsDenied(name) =>
                    IF \E x \in OldModels : x.name = name
                    THEN /\ Cardinality(BuiltNamed(name)) = 1
                         /\ \A i \in BuiltNamed(name) : built[i] \in OldModels
                    ELSE BuiltNamed(name) = {}

\* the case of C4: B is denied and the old clump has B only in a group
C4_Witness ==
    /\ Returned /\ Unwritten /\ opts.export_meshes
    /\ IsDenied("B")
    /\ old_clump.type = "clump"
    /\ FileModel("B") \notin Range(disk.heap[old_clump.model_chunks])
    /\ FileModel("B") \in Range(built)
    /\ \E e \in 1..Len(LastArmature.empties) :
          /\ LastArmature.empties[e].name = "B"
          /\ LastArmature.empties[e].meshes[1].tris # <<>>

\* the model a group name resolves to among the models of this export
Resolved(name) ==
    IF BuiltNamed(name) = {} THEN None
    ELSE built[CHOOSE i \in BuiltNamed(name) : \A j \in BuiltNamed(name) : j <= i]

\* C5: a rebuilt group has one entry for every name of the group in the
\* clump data, in the same order, and a name that is not among the models of
\* this export gives None at its place.
C5_GroupsPositionStable ==
    (Returned /\ opts.export_meshes) =>
        /\ Len(NewGroups) = Len(LastArmature.model_groups)
        /\ \A g \in 1..Len(NewGroups) :
              /\ Len(NewGroups[g].model_chunks) = Len(LastArmature.model_groups[g].models)
              /\ \A i \in 1..Len(NewGroups[g].model_chunks) :
                    NewGroups[g].model_chunks[i] = Resolved(LastArmature.model_groups[g].models[i])

\* the original statement of C6: every entry of the clump's model list and of
\* its groups is None or a model of the clump's own model list
C6_GroupsWithinModelList ==
    Returned =>
        \A g \in 1..Len(NewGroups) :
            \A i \in 1..Len(NewGroups[g].model_chunks) :
                \/ NewGroups[g].model_chunks[i] = None
                \/ NewGroups[g].model_chunks[i] \in Range(NewChunks)

\* C6, amended: in a rebuilt clump every entry of model_chunks is a model
\* that make_models returned, never None, and every entry of a group is None
\* or a model that make_models returned; in a clump that reuses the old
\* lists the entries are those of the old clump. A group may hold a model
\* that is not in the clump's model list.
C6_EntriesAreModelsOfTheExport ==
    (Returned /\ Unwritten) =>
        IF opts.export_meshes
        THEN /\ \A i \in 1..Len(NewChunks) : NewChunks[i] # None /\ NewChunks[i] \in Range(built)
             /\ \A g \in 1..Len(NewGroups) :
                   \A i \in 1..Len(NewGroups[g].model_chunks) :
                       \/ NewGroups[g].model_chunks[i] = None
                       \/ NewGroups[g].model_chunks[i] \in Range(built)
        ELSE /\ \A i \in 1..Len(NewChunks) : NewChunks[i] \in OldModels \cup {None}
             /\ \A g \in 1..Len(NewGroups) :
                   \A i \in 1..Len(NewGroups[g].model_chunks) :
                       NewGroups[g].model_chunks[i] \in OldModels \cup {None}

\* the case of C6: a rebuilt group holds the model C, which is built and is
\* not in the clump's model list
C6_Witness ==
    /\ Returned /\ Unwritten /\ opts.export_meshes
    /\ LastArmature.models = <<"A", "None", "B">>
    /\ \E g \in 1..Len(NewGroups) :
          \E i \in 1..Len(NewGroups[g].model_chunks) :
              /\ NewGroups[g].model_chunks[i].name = "C"
              /\ NewGroups[g].model_chunks[i] \in Range(built)
              /\ NewGroups[g].model_chunks[i] \notin Range(NewChunks)

----------------------------------------------------------------------------
(* Properties of the checks of make_models on the mesh objects *)

\* the vertices a mesh object has in its triangles
VertexSet(mesh_obj) == {mesh_obj.tris[t][c] : t \in 1..Len(mesh_obj.tris), c \in 1..3}

OverCapacity(mesh_obj) ==
    \/ Cardinality(VertexSet(mesh_obj)) > MAX_VERTICES
    \/ Len(mesh_obj.tris) > MAX_FACES

Survives(mesh_obj, armature) ==
    /\ Cardinality(VertexSet(mesh_obj)) >= 3
    /\ ~OverCapacity(mesh_obj)
    /\ mesh_obj.xfbin_material \in armature.materials

\* the exported meshes of a name, in the models built from the scene
BuiltMeshes(name) ==
    UNION {{<<i, j>> : j \in {j \in 1..Len(built[i].meshes) : built[i].meshes[j].name = name}} :
              i \in {i \in 1..Len(built) : built[i].origin = "scene"}}

Diagnosed(tag, name) == \E k \in 1..Len(log) : log[k].tag = tag /\ log[k].name = name

\* the models built from the scene for an empty
BuiltFromScene(name) == {i \in BuiltNamed(name) : built[i].origin = "scene"}

AllBuilt == Returned /\ Unwritten /\ opts.export_meshes /\ ~opts.export_specific_meshes

\* C7: every sub-mesh of a model built from the scene has between 3 and
\* MAX_VERTICES vertices and at most MAX_FACES triangles; a mesh object over
\* either limit is in no model and has a diagnostic; an exported sub-mesh has
\* all the vertices and triangles of its mesh object; a mesh object that
\* passes the checks is in the model of its empty, whatever happened to the
\* other mesh objects.
C7_CapacityPolicy ==
    AllBuilt =>
        /\ \A i \in 1..Len(built) : built[i].origin = "scene" =>
              \A j \in 1..Len(built[i].meshes) :
                  /\ Len(built[i].meshes[j].vertices) >= 3
                  /\ Len(built[i].meshes[j].vertices) <= MAX_VERTICES
                  /\ Len(built[i].meshes[j].faces) <= MAX_FACES
        /\ \A e \in 1..Len(LastArmature.empties) :
              \A m \in 1..Len(LastArmature.empties[e].meshes) :
                  LET mesh_obj == LastArmature.empties[e].meshes[m]
                  IN  /\ OverCapacity(mesh_obj) =>
                            /\ BuiltMeshes(mesh_obj.name) = {}
                            /\ Diagnosed("NUD MESH", mesh_obj.name)
                      /\ \A ij \in BuiltMeshes(mesh_obj.name) :
                            /\ Len(built[ij[1]].meshes[ij[2]].vertices) = Cardinality(VertexSet(mesh_obj))
                            /\ Len(built[ij[1]].meshes[ij[2]].faces) = Len(mesh_obj.tris)
                      /\ Survives(mesh_obj, LastArmature) =>
                            \E ij \in BuiltMeshes(mesh_obj.name) :
                                built[ij[1]].name = LastArmature.empties[e].name

\* the case of C7: A1 has MAX_VERTICES + 1 vertices, A2 has MAX_FACES + 1
\* triangles, A3 is at the limit of the vertices and is exported, and so is B
C7_Witness ==
    /\ AllBuilt
    /\ Cardinality(VertexSet(LastArmature.empties[1].meshes[1])) = MAX_VERTICES + 1
    /\ Cardinality(VertexSet(LastArmature.empties[1].meshes[2])) <= MAX_VERTICES
    /\ Len(LastArmature.empties[1].meshes[2].tris) = MAX_FACES + 1
    /\ Diagnosed("NUD MESH", "A1") /\ Diagnosed("NUD MESH", "A2")
    /\ \E i \in 1..Len(built) :
          /\ built[i].name = "A"
          /\ Len(built[i].meshes) = 1
          /\ built[i].meshes[1].name = "A3"
          /\ Len(built[i].meshes[1].vertices) = MAX_VERTICES
    /\ BuiltMeshes("B1") # {}

InNewLists(name) ==
    \/ \E i \in 1..Len(NewChunks) : NewChunks[i] # None /\ NewChunks[i].name = name
    \/ \E g \in 1..Len(NewGroups) : \E i \in 1..Len(NewGroups[g].model_chunks) :
          /\ NewGroups[g].model_chunks[i] # None
          /\ NewGroups[g].model_chunks[i].name = name

\* C8: make_models returns a model built from the scene for an empty if and
\* only if a mesh object of the empty passed all checks; the model has the
\* mesh objects that passed; an empty with no such mesh object has no model
\* in the result, in clump.model_chunks or in a model group.
C8_EmptyResultPolicy ==
    AllBuilt =>
        \A e \in 1..Len(LastArmature.empties) :
            LET empty == LastArmature.empties[e]
                ok == {m \in 1..Len(empty.meshes) : Survives(empty.meshes[m], LastArmature)}
            IN  /\ BuiltFromScene(empty.name) # {} <=> ok # {}
                /\ \A i \in BuiltFromScene(empty.name) : Len(built[i].meshes) = Cardinality(ok)
                /\ ok = {} => (BuiltNamed(empty.name) = {} /\ ~InNewLists(empty.name))
                /\ ok # {} => InNewLists(empty.name)

\* the case of C8: no mesh object of A passes (no faces, too many vertices,
\* a material that does not exist), B is built
C8_Witness ==
    /\ AllBuilt
    /\ LastArmature.empties[1].meshes[1].tris = <<>>
    /\ Cardinality(VertexSet(LastArmature.empties[1].meshes[2])) > MAX_VERTICES
    /\ LastArmature.empties[1].meshes[3].xfbin_material \notin LastArmature.materials
    /\ BuiltNamed("A") = {}
    /\ ~InNewLists("A")
    /\ Diagnosed("NUD", "A")
    /\ BuiltFromScene("B") # {}
    /\ InNewLists("B")

HasUnresolvedMaterial(empty, armature) ==
    \E m \in 1..Len(empty.meshes) : empty.meshes[m].xfbin_material \notin armature.materials

\* the original statement of C9: an empty with a mesh object whose material
\* is not in the material table has no model in the export
C9_MaterialDropsModel ==
    AllBuilt =>
        \A e \in 1..Len(LastArmature.empties) :
            HasUnresolvedMaterial(LastArmature.empties[e], LastArmature) =>
                BuiltNamed(LastArmature.empties[e].name) = {}

\* C9, amended: a mesh object whose material is not in the material table is
\* in no model and has a diagnostic; its material is not among the materials
\* of the model; the model of its empty is exported with the other mesh
\* objects when one of them passes the checks, and the other empties are
\* processed as without it.
C9_MaterialDropsSubMesh ==
    AllBuilt =>
        \A e \in 1..Len(LastArmature.empties) :
            LET empty == LastArmature.empties[e]
            IN  \A m \in 1..Len(empty.meshes) :
                    empty.meshes[m].xfbin_material \notin LastArmature.materials =>
                        /\ BuiltMeshes(empty.meshes[m].name) = {}
                        /\ Diagnosed("NUD MESH", empty.meshes[m].name)
                        /\ \A i \in BuiltFromScene(empty.name) :
                              /\ Range(built[i].material_chunks) \subseteq LastArmature.materials
                              /\ Len(built[i].material_chunks) = Len(built[i].meshes)
                        /\ \A n \in 1..Len(empty.meshes) :
                              Survives(empty.meshes[n], LastArmature) =>
                                  \E ij \in BuiltMeshes(empty.meshes[n].name) :
                                      built[ij[1]].name = empty.name
                        /\ \A f \in 1..Len(LastArmature.empties) :
                              (\E n \in 1..Len(LastArmature.empties[f].meshes) :
                                  Survives(LastArmature.empties[f].meshes[n], LastArmature))
                                  => BuiltFromScene(LastArmature.empties[f].name) # {}

\* the case of C9: A1 is within the limits and has a material that does not
\* exist, A2 is exported in the model A
C9_Witness ==
    /\ AllBuilt
    /\ LastArmature.empties[1].meshes[1].xfbin_material \notin LastArmature.materials
    /\ LastArmature.empties[1].meshes[1].tris = <<T012>>
    /\ \E k \in 1..Len(log) :
          log[k] = [tag |-> "NUD MESH", name |-> "A1", what |-> "non-existing material"]
    /\ BuiltMeshes("A1") = {}
    /\ \E ij \in BuiltMeshes("A2") : built[ij[1]].name = "A"
    /\ BuiltFromScene("B") # {}

----------------------------------------------------------------------------
(* Properties of the weights of a vertex *)

NewCoords == heap[clump.coord_chunks]

\* the position of a bone in clump.coord_chunks, from 0
CoordPosition(name) == (CHOOSE i \in 1..Len(NewCoords) : NewCoords[i].name = name) - 1

\* the influences of a vertex on bones of the clump, in their order
OnClump(items) ==
    SelectSeq(items, LAMBDA it : \E i \in 1..Len(NewCoords) : NewCoords[i].name = it.bone)

\* the number of influences that come before influence p in descending
\* order of the weight, ties in the original order
Rank(inf, p) ==
    Cardinality({q \in 1..Len(inf) : inf[q].w > inf[p].w \/ (inf[q].w = inf[p].w /\ q < p)})

KeptSum(inf) == SumSeq([p \in 1..Len(inf) |-> IF Rank(inf, p) < 4 THEN inf[p].w ELSE 0])

ResolvedShape(v, inf) ==
    /\ Len(v.bone_ids) = 4
    /\ Len(v.bone_weights) = 4
    /\ \A p \in 1..Len(inf) :
          Rank(inf, p) < 4 =>
              /\ v.bone_ids[Rank(inf, p) + 1] = CoordPosition(inf[p].bone)
              /\ v.bone_weights[Rank(inf, p) + 1].n * KeptSum(inf)
                    = inf[p].w * v.bone_weights[Rank(inf, p) + 1].d
    /\ \A p \in (Len(inf) + 1)..4 : v.bone_ids[p] = 0 /\ v.bone_weights[p].n = 0
    /\ \A p \in 1..4 :
          /\ v.bone_weights[p].d = v.bone_weights[1].d
          /\ v.bone_weights[p].d > 0
    /\ SumSeq([p \in 1..4 |-> v.bone_weights[p].n]) = v.bone_weights[1].d

\* the mesh object of a name in the armature
MeshObjectNamed(name) ==
    CHOOSE mesh_obj \in UNION {Range(LastArmature.empties[e].meshes) :
                                  e \in 1..Len(LastArmature.empties)} :
        mesh_obj.name = name

\* C10: a vertex with a positive influence on a bone of the clump has 4 bone
\* ids and 4 weights; the influences on bones of the clump are kept by
\* descending weight, ties in the original order, up to 4; a bone id is the
\* position of the bone in clump.coord_chunks; the places after the kept
\* influences hold (0, 0); the weights sum to 1.
C10_WeightResolverShape ==
    (Returned /\ Unwritten /\ opts.export_meshes) =>
        \A i \in 1..Len(built) : built[i].origin = "scene" =>
            \A j \in 1..Len(built[i].meshes) :
                \A k \in 1..Len(built[i].meshes[j].vertices) :
                    LET v == built[i].meshes[j].vertices[k]
                        mesh_obj == MeshObjectNamed(built[i].meshes[j].name)
                        inf == OnClump(mesh_obj.weights[v.src])
                    IN  (mesh_obj.deform /\ \E p \in 1..Len(inf) : inf[p].w > 0)
                            => ResolvedShape(v, inf)

FallbackIds == <<0, 0, 0, 0>>
FallbackWeights == <<[n |-> 0, d |-> 1], [n |-> 0, d |-> 1], [n |-> 0, d |-> 1], [n |-> 1, d |-> 1]>>

\* no influence of the vertex is a positive weight on a bone of the clump
NoValidInfluence(items) == \A p \in 1..Len(OnClump(items)) : OnClump(items)[p].w = 0

\* the weights of the vertex sum to something other than 0
NonZeroSum(v) ==
    /\ Len(v.bone_weights) > 0
    /\ \A p \in 1..Len(v.bone_weights) : v.bone_weights[p].d > 0 /\ v.bone_weights[p].n >= 0
    /\ \E p \in 1..Len(v.bone_weights) : v.bone_weights[p].n > 0

\* the vertices of the models built from the scene: <<model, mesh, vertex>>
BuiltVertices ==
    UNION {UNION {{<<i, j, k>> : k \in 1..Len(built[i].meshes[j].vertices)} :
                     j \in 1..Len(built[i].meshes)} :
              i \in {i \in 1..Len(built) : built[i].origin = "scene"}}

VertexAt(ijk) == built[ijk[1]].meshes[ijk[2]].vertices[ijk[3]]
SourceOf(ijk) == MeshObjectNamed(built[ijk[1]].meshes[ijk[2]].name)

\* the original statement of C11: every exported vertex with no influence, or
\* with no positive influence on a bone of the clump, has the bone ids
\* [0,0,0,0] and the weights [0,0,0,1], and no exported vertex has weights
\* whose sum is 0
C11_FallbackForEveryVertex ==
    (Returned /\ Unwritten /\ opts.export_meshes) =>
        \A ijk \in BuiltVertices :
            /\ NoValidInfluence(SourceOf(ijk).weights[VertexAt(ijk).src]) =>
                  /\ VertexAt(ijk).bone_ids = FallbackIds
                  /\ VertexAt(ijk).bone_weights = FallbackWeights
            /\ NonZeroSum(VertexAt(ijk))

\* C11, amended: in a mesh object with a deform layer, a vertex with no
\* influence, or with no positive influence on a bone of the clump, has the
\* bone ids [0,0,0,0] and the weights [0,0,0,1], and every vertex has 4
\* weights whose sum is not 0; in a mesh object without a deform layer every
\* vertex has no bone ids and no weights.
C11_FallbackWithDeformLayer ==
    (Returned /\ Unwritten /\ opts.export_meshes) =>
        \A ijk \in BuiltVertices :
            IF SourceOf(ijk).deform
            THEN /\ NoValidInfluence(SourceOf(ijk).weights[VertexAt(ijk).src]) =>
                       /\ VertexAt(ijk).bone_ids = FallbackIds
                       /\ VertexAt(ijk).bone_weights = FallbackWeights
                 /\ Len(VertexAt(ijk).bone_ids) = 4
                 /\ Len(VertexAt(ijk).bone_weights) = 4
                 /\ NonZeroSum(VertexAt(ijk))
            ELSE /\ VertexAt(ijk).bone_ids = <<>>
                 /\ VertexAt(ijk).bone_weights = <<>>

\* the case of C11: in A1 vertex 0 has only weights 0 on two bones of the
\* clump, vertex 1 has no influence, vertex 2 is in the group x only, and all
\* three have the fallback; A2 has no deform layer
C11_Witness ==
    /\ Returned /\ Unwritten /\ opts.export_meshes
    /\ LastArmature.empties[1].meshes[1].deform
    /\ Len(LastArmature.empties[1].meshes[1].weights[0]) = 2
    /\ NoValidInfluence(LastArmature.empties[1].meshes[1].weights[0])
    /\ Len(OnClump(LastArmature.empties[1].meshes[1].weights[0])) = 2
    /\ \E i \in 1..Len(built) :
          /\ Len(built[i].meshes) = 2
          /\ \A k \in 1..3 :
                /\ built[i].meshes[1].vertices[k].bone_ids = FallbackIds
                /\ built[i].meshes[1].vertices[k].bone_weights = FallbackWeights
          /\ ~LastArmature.empties[1].meshes[2].deform
          /\ built[i].meshes[2].vertices[1].bone_weights = <<>>

----------------------------------------------------------------------------
(* Properties of the vertices and faces of a sub-mesh *)

\* the exported sub-meshes of the models built from the scene: <<model, mesh>>
BuiltSubMeshes ==
    UNION {{<<i, j>> : j \in 1..Len(built[i].meshes)} :
              i \in {i \in 1..Len(built) : built[i].origin = "scene"}}

SubMeshAt(ij) == built[ij[1]].meshes[ij[2]]
TrisOf(ij) == MeshObjectNamed(SubMeshAt(ij).name).tris

\* the place of corner c of triangle t in the traversal
CornerPlace(t, c) == 3 * (t - 1) + c

\* the first place at which the traversal meets a source vertex
FirstPlace(tris, src) ==
    CHOOSE n \in 1..(3 * Len(tris)) :
        /\ \E t \in 1..Len(tris), c \in 1..3 : CornerPlace(t, c) = n /\ tris[t][c] = src
        /\ \A t \in 1..Len(tris), c \in 1..3 : tris[t][c] = src => CornerPlace(t, c) >= n

\* C12: a sub-mesh has one vertex for every source vertex of its triangle
\* corners; the vertices are in the order in which the traversal first meets
\* them, each with the attributes of that first corner; face t is the triple
\* of the output indices of the corners of triangle t, each below the number
\* of vertices.
C12_VertexDeduplication ==
    AllBuilt =>
        \A ij \in BuiltSubMeshes :
            LET out == SubMeshAt(ij)
                tris == TrisOf(ij)
                srcs == {tris[t][c] : t \in 1..Len(tris), c \in 1..3}
            IN  /\ Len(out.vertices) = Cardinality(srcs)
                /\ {out.vertices[k].src : k \in 1..Len(out.vertices)} = srcs
                /\ \A k \in 1..Len(out.vertices) :
                      out.vertices[k].loop = FirstPlace(tris, out.vertices[k].src)
                /\ \A k \in 1..Len(out.vertices), n \in 1..Len(out.vertices) :
                      k < n => out.vertices[k].loop < out.vertices[n].loop
                /\ Len(out.faces) = Len(tris)
                /\ \A t \in 1..Len(tris), c \in 1..3 :
                      /\ out.faces[t][c] \in 0..(Len(out.vertices) - 1)
                      /\ out.vertices[out.faces[t][c] + 1].src = tris[t][c]

\* the case of C12: A1 has the triangles (3,4,5) and (5,4,0)
C12_Witness ==
    /\ AllBuilt
    /\ LastArmature.empties[1].meshes[1].tris = <<T345, <<5, 4, 0>>>>
    /\ \E ij \in BuiltSubMeshes :
          /\ SubMeshAt(ij).name = "A1"
          /\ [k \in 1..4 |-> SubMeshAt(ij).vertices[k].src] = <<3, 4, 5, 0>>
          /\ [k \in 1..4 |-> SubMeshAt(ij).vertices[k].loop] = <<1, 2, 3, 6>>
          /\ SubMeshAt(ij).faces = <<<<0, 1, 2>>, <<2, 1, 3>>>>

\* C13: every face of an exported sub-mesh has 3 distinct vertex indices, and
\* the faces are the triangles of the mesh object whose corners are 3
\* distinct vertices, in their order.
C13_NoDegenerateFaces ==
    AllBuilt =>
        \A ij \in BuiltSubMeshes :
            /\ \A t \in 1..Len(SubMeshAt(ij).faces) :
                  Cardinality(Range(SubMeshAt(ij).faces[t])) = 3
            /\ Len(SubMeshAt(ij).faces)
                  = Len(SelectSeq(TrisOf(ij), LAMBDA tri : Cardinality(Range(tri)) = 3))

----------------------------------------------------------------------------
(* Properties of the texture pages *)

\* the pages export_collection started from
LoadedPages == IF opts.inject_to_xfbin THEN disk.pages ELSE <<>>

TexturePagesOf(pages) == {pages[i] : i \in {i \in 1..Len(pages) : pages[i].type = "texture"}}

\* the texture chunk has a file that is read
IsRead(t) == t.include /\ t.has_file

StartsWithMagic(nut_data) ==
    /\ Len(nut_data) >= 4
    /\ nut_data[1] = "N" /\ nut_data[2] = "T" /\ nut_data[3] = "P" /\ nut_data[4] = "3"

\* the page a texture chunk would make
PageOfChunk(t) == [type |-> "texture", path |-> t.path, name |-> t.texture_name, nut_data |-> t.nut_data]

\* the texture chunk is the last one of its name that makes a page
LastOfName(chunks, i, good(_)) ==
    \A j \in (i + 1)..Len(chunks) :
        chunks[j].texture_name = chunks[i].texture_name => ~(IsRead(chunks[j]) /\ good(chunks[j].nut_data))

AfterTextures == Returned /\ Unwritten

\* the original statement of C14: a file that does not start with NTP3 makes
\* no page and has a diagnostic, the export goes on, and a file that starts
\* with NTP3, whatever follows, makes a page
C14_MagicDecides ==
    AfterTextures =>
        LET chunks == LastArmature.texture_chunks
        IN  /\ \A p \in TexturePagesOf(xfbin) \ TexturePagesOf(LoadedPages) :
                  StartsWithMagic(p.nut_data)
            /\ \A i \in 1..Len(chunks) :
                  /\ (IsRead(chunks[i]) /\ ~StartsWithMagic(chunks[i].nut_data))
                        => Diagnosed("NUT", chunks[i].texture_name)
                  /\ (IsRead(chunks[i]) /\ StartsWithMagic(chunks[i].nut_data)
                        /\ LastOfName(chunks, i, StartsWithMagic))
                        => PageOfChunk(chunks[i]) \in TexturePagesOf(xfbin)
            /\ HasClumpPage(xfbin, LastArmature)

LongerThanMagic(nut_data) == StartsWithMagic(nut_data) /\ Len(nut_data) >= 5

\* C14, amended: a texture page that was not in the container before is the
\* page of a file that starts with NTP3 and has at least one more byte; a file
\* that is read and is not such a file (NTP3 alone included) makes no page and
\* has a diagnostic; a file that is such a file makes a page, which replaces
\* an earlier page of its path and name; the clump page is added in each
\* case.
C14_MagicAndMore ==
    AfterTextures =>
        LET chunks == LastArmature.texture_chunks
        IN  /\ \A p \in TexturePagesOf(xfbin) \ TexturePagesOf(LoadedPages) :
                  /\ LongerThanMagic(p.nut_data)
                  /\ \E i \in 1..Len(chunks) : IsRead(chunks[i]) /\ PageOfChunk(chunks[i]) = p
            /\ \A i \in 1..Len(chunks) :
                  /\ (IsRead(chunks[i]) /\ ~LongerThanMagic(chunks[i].nut_data))
                        => Diagnosed("NUT", chunks[i].texture_name)
                  /\ (IsRead(chunks[i]) /\ LongerThanMagic(chunks[i].nut_data)
                        /\ LastOfName(chunks, i, LongerThanMagic))
                        => /\ PageOfChunk(chunks[i]) \in TexturePagesOf(xfbin)
                           /\ \A p \in TexturePagesOf(xfbin) :
                                 (p.path = chunks[i].path /\ p.name = chunks[i].texture_name)
                                     => p = PageOfChunk(chunks[i])
            /\ HasClumpPage(xfbin, LastArmature)

\* the case of C14: the file of t1 is NTP3 and nothing more and makes no page,
\* the file of old_tex starts with NTP3 and replaces the page of the container
C14_Witness ==
    /\ AfterTextures /\ opts.inject_to_xfbin
    /\ Len(LastArmature.texture_chunks) = 2
    /\ IsRead(LastArmature.texture_chunks[1])
    /\ LastArmature.texture_chunks[1].nut_data = NTP3
    /\ LastArmature.texture_chunks[2].texture_name = "old_tex"
    /\ Len(LastArmature.texture_chunks[2].nut_data) = 4 + MaxNutTail
    /\ Diagnosed("NUT", "t1")
    /\ ~Diagnosed("NUT", "old_tex")
    /\ TexturePagesOf(xfbin) = {PageOfChunk(LastArmature.texture_chunks[2])}
    /\ TexturePagesOf(LoadedPages) # {}
    /\ HasClumpPage(xfbin, LastArmature)

\* C15: with inject_to_xfbin on and export_textures off the texture pages of
\* the container are those it had when read, and a texture page is added
\* only with export_textures on.
C15_TexturesSwitch ==
    AfterTextures =>
        /\ (opts.inject_to_xfbin /\ ~opts.export_textures)
              => TexturePagesOf(xfbin) = TexturePagesOf(LoadedPages)
        /\ TexturePagesOf(xfbin) \ TexturePagesOf(LoadedPages) # {} => opts.export_textures

----------------------------------------------------------------------------
(* Properties of the options *)

\* C16: with inject_to_xfbin off, export_collection starts from a container
\* with no page and sets export_meshes, export_bones and export_textures,
\* whatever they were; the two errors of make_clump never occur, and the
\* coords and the models of every clump are made from the scene.
C16_OptionsOnlyWhenInjecting ==
    /\ [][(pc = "begin" /\ ~opts.inject_to_xfbin) =>
            /\ xfbin' = <<>>
            /\ opts'.export_meshes /\ opts'.export_bones /\ opts'.export_textures
            /\ opts'.inject_to_xfbin = opts.inject_to_xfbin]_vars
    /\ [](~opts.inject_to_xfbin => error \notin {BonesError, MeshesError})
    /\ []((~opts.inject_to_xfbin /\ Returned /\ Unwritten) =>
            /\ heap[clump.coord_chunks] = make_coords(LastArmature.bones)
            /\ \A i \in 1..Len(built) : built[i].origin = "scene"
            /\ \A i \in 1..Len(NewChunks) : NewChunks[i] \in Range(built))

\* the case of C16: the file holds the clump of the armature, injection is
\* off, and the clump has the bones and a model of the scene
C16_Witness ==
    /\ ~opts.inject_to_xfbin
    /\ Returned /\ Unwritten
    /\ arm = 2
    /\ disk.exists /\ HasClumpPage(disk.pages, LastArmature)
    /\ heap[clump.coord_chunks] = make_coords(LastArmature.bones)
    /\ heap[clump.coord_chunks] # FileCoords
    /\ Len(NewChunks) = 2
    /\ \A i \in 1..Len(NewChunks) : NewChunks[i].origin = "scene"

----------------------------------------------------------------------------
(* Properties of the scale of the bones *)

Abs(x) == IF x < 0 THEN -x ELSE x

RebuiltCoords == Returned /\ Unwritten /\ opts.export_bones

\* the coord make_coords made for a bone
CoordOfBone(bone) == CHOOSE c \in Range(NewCoords) : c.name = bone.name

\* the original statement of C17: the scale components of an exported node
\* are the absolute values of the decomposed scale, and none is negative
C17_AbsoluteScale ==
    RebuiltCoords =>
        \A b \in 1..Len(LastArmature.bones) : \A i \in 1..3 :
            /\ CoordOfBone(LastArmature.bones[b]).scale[i] >= 0
            /\ CoordOfBone(LastArmature.bones[b]).scale[i] = Abs(LastArmature.bones[b].sca[i])

\* C17, amended: the scale of an exported node is the decomposed scale of the
\* bone, each component times the sign in the bone's scale_signs when the
\* bone has that property, and as decomposed when it has not; a component is
\* negative when one of the two is.
C17_SignedScale ==
    RebuiltCoords =>
        /\ Len(NewCoords) = Len(LastArmature.bones)
        /\ \A b \in 1..Len(LastArmature.bones) : \A i \in 1..3 :
              LET bone == LastArmature.bones[b]
              IN  IF bone.scale_signs = NoSigns
                  THEN CoordOfBone(bone).scale[i] = bone.sca[i]
                  ELSE /\ Abs(CoordOfBone(bone).scale[i]) = Abs(bone.sca[i])
                       /\ (CoordOfBone(bone).scale[i] < 0)
                              <=> ((bone.sca[i] < 0) # (bone.scale_signs[i] < 0))

\* the case of C17: the root has the decomposed scale (2, 1, 1) and the signs
\* (-1, 1, -1)
C17_Witness ==
    /\ RebuiltCoords
    /\ LastArmature.bones[1].sca = <<2, 1, 1>>
    /\ LastArmature.bones[1].scale_signs = <<-1, 1, -1>>
    /\ NewCoords[1].name = "root"
    /\ NewCoords[1].scale = <<-2, 1, -1>>

WasImported == pc = "imported"

\* the bones of the imported armatures: <<armature, bone>>
ImportedBones ==
    UNION {{<<k, b>> : b \in 1..Len(imported[k].bones)} : k \in 1..Len(imported)}

BoneAt(kb) == imported[kb[1]].bones[kb[2]]
NodeOf(kb) == CHOOSE c \in Range(imported[kb[1]].coords) : c.name = BoneAt(kb).name
LocalOf(kb) == BoneAt(kb).matrix[Len(BoneAt(kb).matrix)]

\* the matrix of the parent of a bone, the identity for a root
ParentMatrixOf(kb) ==
    IF BoneAt(kb).parent = "" THEN <<>>
    ELSE (CHOOSE p \in Range(imported[kb[1]].bones) : p.name = BoneAt(kb).parent).matrix

\* the original statement of C18: the matrix of a bone is the matrix of its
\* parent times the local matrix, whose scale components are the absolute
\* stored scale times its sign, i.e. negative where the stored one is
C18_SignsReapplied ==
    WasImported =>
        \A kb \in ImportedBones :
            /\ BoneAt(kb).matrix = ParentMatrixOf(kb) \o <<LocalOf(kb)>>
            /\ \A i \in 1..3 :
                  LocalOf(kb).sca[i]
                      = Abs(NodeOf(kb).scale[i]) * (IF NodeOf(kb).scale[i] < 0 THEN -1 ELSE 1)

\* C18, amended: the matrix of a bone is the matrix of its parent times the
\* local matrix, whose scale components are the absolute values of the
\* stored scale; the signs (-1 for a negative component, 1 otherwise) are
\* kept in the bone's scale_signs property and are not in the matrix.
C18_SignsStoredAside ==
    WasImported =>
        \A kb \in ImportedBones :
            /\ BoneAt(kb).matrix = ParentMatrixOf(kb) \o <<LocalOf(kb)>>
            /\ LocalOf(kb).node = BoneAt(kb).name
            /\ \A i \in 1..3 :
                  /\ LocalOf(kb).sca[i] = Abs(NodeOf(kb).scale[i])
                  /\ BoneAt(kb).scale_signs[i] = IF NodeOf(kb).scale[i] < 0 THEN -1 ELSE 1

\* the case of C18: the bone b1 under root, stored with the scale (2, -2, -1)
C18_Witness ==
    /\ WasImported
    /\ \E kb \in ImportedBones :
          /\ BoneAt(kb).name = "b1"
          /\ NodeOf(kb).scale = <<2, -2, -1>>
          /\ Len(BoneAt(kb).matrix) = 2
          /\ LocalOf(kb).sca = <<2, 2, 1>>
          /\ BoneAt(kb).scale_signs = <<1, -1, -1>>

\* the name k steps up the parents of a node
RECURSIVE Up(_, _, _)
Up(coords, name, k) ==
    IF k = 0 \/ ~(\E c \in Range(coords) : c.name = name) THEN name
    ELSE Up(coords, (CHOOSE c \in Range(coords) : c.name = name).parent, k - 1)

OnCycle(coords, name) == \E k \in 1..Len(coords) : Up(coords, name, k) = name

Cyclic(coords) == \E c \in Range(coords) : OnCycle(coords, c.name)

\* C19: no armature is made of a clump whose coords have a cycle in their
\* parents.
C19_CyclesRejected ==
    WasImported => \A k \in 1..Len(imported) : ~Cyclic(imported[k].coords)

----------------------------------------------------------------------------
(* Properties of nud_mesh_to_bmesh *)

\* the mesh objects that were imported: <<armature, empty, mesh>>
ImportedMeshes ==
    UNION {UNION {{<<k, e, i>> : i \in 1..Len(imported[k].objects[e].meshes)} :
                     e \in 1..Len(imported[k].objects)} :
              k \in 1..Len(imported)}

BmOf(kei) == imported[kei[1]].objects[kei[2]].meshes[kei[3]].bm

\* the models of the clump of the k-th page with a clump, in the file
StoredModels(k) ==
    SelectSeq(FromKeys(disk.heap[ClumpPagesOf(disk.pages)[k].clump.model_chunks]
                       \o Concat([g \in 1..Len(disk.heap[ClumpPagesOf(disk.pages)[k].clump.model_groups]) |->
                                     disk.heap[ClumpPagesOf(disk.pages)[k].clump.model_groups][g].model_chunks])),
              LAMBDA c : c # None)

\* the stored mesh a mesh object was made of
StoredMesh(kei) == StoredModels(kei[1])[kei[2]].meshes[kei[3]]

\* a stored triangle on three distinct points of the bmesh
ThreePoints(tri, nverts) ==
    /\ Cardinality(Range(tri)) = 3
    /\ \A c \in 1..3 : tri[c] \in 0..(nverts - 1)

\* C20: nud_mesh_to_bmesh makes one point per stored vertex; every face is a
\* stored triangle on 3 distinct points, no two faces are on the same three
\* points, the faces are in the order of the first stored triangle on their
\* points, and every stored triangle on 3 distinct points has a face on its
\* points: a triangle on the points of a face is dropped and the import goes
\* on.
C20_TriangleFiltering ==
    WasImported =>
        \A kei \in ImportedMeshes :
            /\ BmOf(kei).verts = Len(StoredMesh(kei).vertices)
            /\ \A f \in 1..Len(BmOf(kei).faces) :
                  /\ Cardinality(Range(BmOf(kei).faces[f])) = 3
                  /\ \E t \in 1..Len(StoredMesh(kei).faces) :
                        /\ StoredMesh(kei).faces[t] = BmOf(kei).faces[f]
                        /\ \A u \in 1..(t - 1) :
                              Range(StoredMesh(kei).faces[u]) # Range(BmOf(kei).faces[f])
                  /\ \A g \in 1..Len(BmOf(kei).faces) :
                        f < g =>
                            /\ Range(BmOf(kei).faces[f]) # Range(BmOf(kei).faces[g])
                            /\ \E t \in 1..Len(StoredMesh(kei).faces) :
                                  /\ Range(StoredMesh(kei).faces[t]) = Range(BmOf(kei).faces[f])
                                  /\ \A u \in 1..t :
                                        Range(StoredMesh(kei).faces[u]) # Range(BmOf(kei).faces[g])
            /\ \A t \in 1..Len(StoredMesh(kei).faces) :
                  ThreePoints(StoredMesh(kei).faces[t], BmOf(kei).verts) =>
                      \E f \in 1..Len(BmOf(kei).faces) :
                          Range(BmOf(kei).faces[f]) = Range(StoredMesh(kei).faces[t])

\* the case of C20: of a triangle, the same triangle turned round, a triangle
\* with a point twice and a second triangle, the first and the last are the
\* faces, and the armature is made
C20_Witness ==
    /\ WasImported
    /\ \E kei \in ImportedMeshes :
          /\ StoredMesh(kei).faces = <<<<0, 1, 2>>, <<2, 1, 0>>, <<0, 0, 1>>, <<1, 2, 3>>>>
          /\ BmOf(kei).verts = 4
          /\ BmOf(kei).faces = <<<<0, 1, 2>>, <<1, 2, 3>>>>
          /\ Len(imported[kei[1]].bones) > 0

----------------------------------------------------------------------------
(* Properties of the color layer of nud_mesh_to_bmesh *)

CarriesColor(mesh) == \E v \in 1..Len(mesh.vertices) : mesh.vertices[v].color # NoColor

\* C21: nud_mesh_to_bmesh makes the color layer of a mesh exactly when a
\* vertex of the mesh has a color, the first vertex or another one, and the
\* color of a corner is then the stored color of its vertex, each value
\* divided by 255.
C21_ColorWhenAnyVertex ==
    WasImported =>
        \A kei \in ImportedMeshes :
            /\ BmOf(kei).color_layer = CarriesColor(StoredMesh(kei))
            /\ BmOf(kei).color_layer =>
                  \A f \in 1..Len(BmOf(kei).faces) : \A c \in 1..3 :
                      LET color == StoredMesh(kei).vertices[BmOf(kei).faces[f][c] + 1].color
                      IN  BmOf(kei).colors[f][c] = [ch \in 1..4 |-> [n |-> color[ch], d |-> 255]]

----------------------------------------------------------------------------
(* Properties of the order of make_coords and make_bone *)

Names(seq) == [i \in 1..Len(seq) |-> seq[i].name]

\* the node ancestor is above the node of a name
IsBelow(coords, name, ancestor) ==
    \E k \in 1..Len(coords) : Up(coords, name, k) = ancestor

\* a list of nodes in pre-order: every node after its parent, and the nodes
\* below a node right after it with no other node between
PreOrder(coords) ==
    /\ \A k \in 1..Len(coords) :
          \/ coords[k].parent = ""
          \/ \E j \in 1..(k - 1) : coords[j].name = coords[k].parent
    /\ \A k \in 1..Len(coords) : \A j \in (k + 1)..Len(coords) :
          IsBelow(coords, coords[j].name, coords[k].name) =>
              \A i \in (k + 1)..j : IsBelow(coords, coords[i].name, coords[k].name)

\* the dependents of a parent ("" for the roots) are in the same order in
\* both lists
SameSiblingOrder(coords, bones) ==
    \A parent \in {""} \cup {bones[i].name : i \in 1..Len(bones)} :
        Names(SelectSeq(coords, LAMBDA c : c.parent = parent))
            = Names(SelectSeq(bones, LAMBDA b : b.parent = parent))

\* C22, on export: in the list of make_coords every bone of the armature has
\* one node, the list is in pre-order, and the roots and the children of
\* every node are in the order of the scene.
C22_CoordsOrder ==
    RebuiltCoords =>
        /\ Len(NewCoords) = Len(LastArmature.bones)
        /\ \A b \in 1..Len(LastArmature.bones) :
              Cardinality({k \in 1..Len(NewCoords) :
                              /\ NewCoords[k].name = LastArmature.bones[b].name
                              /\ NewCoords[k].parent = LastArmature.bones[b].parent}) = 1
        /\ PreOrder(NewCoords)
        /\ SameSiblingOrder(NewCoords, LastArmature.bones)

\* C22, on import: make_bone makes the bone of a node after the bone of its
\* parent, with the matrix of the parent before its own, and the bones of
\* the children of a node in the order of the stored children.
C22_BonesOrder ==
    WasImported =>
        \A k \in 1..Len(imported) :
            /\ PreOrder(imported[k].bones)
            /\ \A b \in 1..Len(imported[k].bones) :
                  /\ imported[k].bones[b].matrix
                        = ParentMatrixOf(<<k, b>>) \o <<LocalOf(<<k, b>>)>>
                  /\ imported[k].bones[b].parent # "" =>
                        Len(ParentMatrixOf(<<k, b>>)) > 0
            /\ SameSiblingOrder(imported[k].bones,
                                SelectSeq(imported[k].coords,
                                          LAMBDA c : \E b \in 1..Len(imported[k].bones) :
                                                        imported[k].bones[b].name = c.name))

\* C22: the order of the nodes of make_coords and of the bones of make_bone
C22_TraversalOrder == C22_CoordsOrder /\ C22_BonesOrder

\* the case of C22: b1 and b3 are roots, b2 is under b1 and b4 under b2; the
\* nodes are written and the bones are made in the order b1, b2, b4, b3
C22_Witness ==
    /\ WasImported
    /\ opts.export_bones
    /\ Len(scene[1].bones) >= 4
    /\ [i \in 1..4 |-> scene[1].bones[i].parent] = <<"", "b1", "", "b2">>
    /\ SubSeq(Names(disk.heap[ClumpPagesOf(disk.pages)[1].clump.coord_chunks]), 1, 4)
          = <<"b1", "b2", "b4", "b3">>
    /\ SubSeq(Names(imported[1].bones), 1, 4) = <<"b1", "b2", "b4", "b3">>

----------------------------------------------------------------------------
(* Properties of the bmeshes of make_models *)

\* C23: every bmesh make_models made of a mesh object was freed when
\* make_models returned, whether the mesh object was exported or skipped.
C23_BuffersFreed ==
    \A i \in 1..Len(buffers) : buffers[i].freed

----------------------------------------------------------------------------
(* Properties of material_chunks *)

EmptyNamed(name) ==
    CHOOSE empty \in Range(LastArmature.empties) : empty.name = name

\* the mesh objects of an empty that pass the checks of make_models, in order
Surviving(name) ==
    SelectSeq(EmptyNamed(name).meshes, LAMBDA mesh_obj : Survives(mesh_obj, LastArmature))

\* C24, on export: a model built from the scene has one sub-mesh and one
\* entry of material_chunks for every mesh object of its empty that passes
\* the checks, in their order, and entry i is the material of sub-mesh i.
C24_ExportAligned ==
    (Returned /\ Unwritten /\ opts.export_meshes) =>
        \A m \in 1..Len(built) :
            built[m].origin = "scene" =>
                /\ Len(built[m].meshes) = Len(Surviving(built[m].name))
                /\ Len(built[m].material_chunks) = Len(built[m].meshes)
                /\ \A i \in 1..Len(built[m].meshes) :
                      /\ built[m].meshes[i].name = Surviving(built[m].name)[i].name
                      /\ built[m].material_chunks[i] = Surviving(built[m].name)[i].xfbin_material

\* C24, on import: for a model built from the scene the lookup
\* material_chunks[i] raises for no mesh, and the material of mesh object i
\* is the material of the mesh object sub-mesh i was made of.
C24_ImportAligned ==
    WasImported =>
        \A k \in 1..Len(imported) : \A e \in 1..Len(imported[k].objects) :
            StoredModels(k)[e].origin = "scene" =>
                /\ imported[k].objects[e].raised = NoError
                /\ Len(imported[k].objects[e].meshes) = Len(StoredModels(k)[e].meshes)
                /\ \A i \in 1..Len(imported[k].objects[e].meshes) :
                      imported[k].objects[e].meshes[i].material
                          = MeshObjectNamed(StoredModels(k)[e].meshes[i].name).xfbin_material

\* C24: material_chunks and the sub-meshes of a built model stay aligned
C24_MaterialsAligned == C24_ExportAligned /\ C24_ImportAligned

\* the case of C24: of three triangles with the materials m3, m2 and m1 the
\* second is skipped, and the imported mesh objects have m3 and m1
C24_Witness ==
    /\ WasImported
    /\ [i \in 1..3 |-> scene[1].empties[1].meshes[i].xfbin_material] = <<"m3", "m2", "m1">>
    /\ \A i \in 1..3 : scene[1].empties[1].meshes[i].tris = <<<<0, 1, 2>>>>
    /\ \E e \in 1..Len(imported[1].objects) :
          /\ imported[1].objects[e].name = "A"
          /\ StoredModels(1)[e].origin = "scene"
          /\ [i \in 1..Len(imported[1].objects[e].meshes) |->
                 imported[1].objects[e].meshes[i].material] = <<"m3", "m1">>

----------------------------------------------------------------------------
(* Properties of the rigging flags *)

\* is the bit of the value b (a power of 2) set in f
HasBit(f, b) == (f \div b) % 2 = 1

\* f & 0x37
Masked(f) ==
    (IF HasBit(f, 1) THEN 1 ELSE 0) + (IF HasBit(f, 2) THEN 2 ELSE 0)
        + (IF HasBit(f, 4) THEN 4 ELSE 0) + (IF HasBit(f, 16) THEN 16 ELSE 0)
        + (IF HasBit(f, 32) THEN 32 ELSE 0)

\* the empties that were imported: <<armature, empty>>
ImportedEmpties ==
    UNION {{<<k, e>> : e \in 1..Len(imported[k].objects)} : k \in 1..Len(imported)}

\* C25: for the rigging flag f of an imported model, the reduction of the
\* exporter over the rigging_flag and rigging_flag_extra that init_data set
\* is f & 0x37: each of the bits 0x01, 0x02, 0x04, 0x10 and 0x20 is kept, every
\* other bit is cleared, and no bit gives 0.
C25_RiggingFlagRoundTrip ==
    WasImported =>
        \A ke \in ImportedEmpties :
            LET f == StoredModels(ke[1])[ke[2]].rigging_flag
                nud_data == imported[ke[1]].objects[ke[2]].nud_data
            IN  /\ RiggingFlagOf(nud_data) = Masked(f)
                /\ \A b \in {1, 2, 4, 16, 32} : HasBit(RiggingFlagOf(nud_data), b) <=> HasBit(f, b)
                /\ \A b \in {8, 64, 128, 256} : ~HasBit(RiggingFlagOf(nud_data), b)

\* the case of C25: the model of the file has the flag 0x4D, the empty gets
\* Unskinned and Body and no extra flag, and the reduction gives 0x05
C25_Witness ==
    /\ WasImported
    /\ \E ke \in ImportedEmpties :
          /\ StoredModels(ke[1])[ke[2]].rigging_flag = 77
          /\ imported[ke[1]].objects[ke[2]].nud_data.rigging_flag = {"1", "4"}
          /\ imported[ke[1]].objects[ke[2]].nud_data.rigging_flag_extra = {}
          /\ RiggingFlagOf(imported[ke[1]].objects[ke[2]].nud_data) = 5

====
